---- MODULE Spec2Model ----
(***************************************************************************)
(* A model of the query core of opentargets-mcp.                           *)
(*                                                                         *)
(* Spec         OpenTargetsClient (src/opentargets_mcp/queries.py): the    *)
(*              query executor `_query` with its in-memory cache, the      *)
(*              lazily created session and `close`.                        *)
(* GatewaySpec  GraphqlApi.graphql_query (tools/graphql.py): the mutation  *)
(*              check, the retry loop and the result envelope.             *)
(* BatchSpec    GraphqlApi.graphql_batch_query: validation, the semaphore, *)
(*              the per-entry tasks and the summary.                       *)
(* SchemaSpec   GraphqlApi.graphql_schema: the schema cache and its lock.  *)
(* WorkflowSpec WorkflowApi.get_drug_repurposing_candidates                *)
(*              (tools/workflows.py): validation, the resolution of the    *)
(*              disease, the per-target lookups and the ranking.           *)
(*                                                                         *)
(* Callers are cooperative coroutines: a call runs atomically from one     *)
(* real suspension point (session.post, asyncio.sleep, a wait for a lock   *)
(* or a semaphore) to the next.  JSON values returned by `_query` live on  *)
(* a heap so that two references to the same parsed response (the caller's *)
(* and the cache's) can be told apart from two equal copies.               *)
(***************************************************************************)
EXTENDS Integers, Sequences, FiniteSets

(***************************************************************************)
(* Bounds of the model.                                                    *)
(***************************************************************************)
\* network requests issued over the life of the client
MaxRequests == 3
\* clock ticks of half a TTL each
MaxTicks == 2
\* introspection queries issued over the life of the process
MaxIntrospections == 3

(***************************************************************************)
(* Program constants.                                                      *)
(***************************************************************************)
\* queries.py:13  self._cache_ttl = 3600
CACHE_TTL_DEFAULT == 3600
\* test_regressions.py:124  OpenTargetsClient(cache_ttl=3600, cache_max_entries=2)
\* (queries.py keeps no capacity: the name is used by the claims only)
cache_max_entries == 2
\* graphql.py:99  getattr(client, "_max_retries", 3)
\* (_query has no retry loop: the name is used by the claims only)
max_retries == 3

TickStep == CACHE_TTL_DEFAULT \div 2

(***************************************************************************)
(* Inputs.                                                                 *)
(***************************************************************************)
Callers == {"c1", "c2"}

Queries == {"qA", "qB"}

\* A `variables` argument: None, or a dict, which keeps its insertion order:
\* a sequence of <<name, value>> items with distinct names.
None == [isNone |-> TRUE, items |-> <<>>]

Dict(items) == [isNone |-> FALSE, items |-> items]

VariableObjects ==
    { None,
      Dict(<< <<"a", 1>>, <<"b", 2>> >>),
      Dict(<< <<"b", 2>>, <<"a", 1>> >>) }

\* The (query, variables) pairs the callers pass to _query: one query
\* without variables, one with the same mapping written in both orders.
Inputs ==
    {<<"qB", None>>} \cup ({"qA"} \X (VariableObjects \ {None}))

\* The mapping a `variables` argument denotes, insertion order forgotten.
AsMapping(variables) ==
    [isNone |-> variables.isNone,
     items  |-> { variables.items[i] : i \in 1..Len(variables.items) }]

\* str(variables): "None", or "{'a': 1, 'b': 2}" with the items in insertion
\* order.  The text of a dict is determined by, and determines, its item
\* sequence, so the pair (kind, item sequence) stands for the text.
Str(variables) ==
    IF variables.isNone THEN <<"None", <<>> >> ELSE <<"{}", variables.items>>

\* queries.py:22  cache_key = f"{query}:{str(variables)}"
CacheKey(query, variables) == <<query, ":">> \o Str(variables)

\* What the remote service can answer.  status is the HTTP status; body is
\*   "data"        {"data": d}
\*   "partial"     {"errors": [...], "data": d}
\*   "errors"      {"errors": [...], "data": null}
\*   "nonjson"     a body response.json() cannot parse
Statuses == {200, 400, 500}

Bodies == {"data", "partial", "errors", "nonjson"}

NetData == {"d1"}

\* The parsed JSON object of a body: whether it has an "errors" member, and
\* its "data" member.
Parsed(body, d) ==
    [errors |-> body \in {"partial", "errors"},
     data   |-> IF body = "errors" THEN "null" ELSE d]

NoValue == [errors |-> FALSE, data |-> "none"]

VARIABLES
    session,      \* self.session: "none" (None), "open", or "closed"
    _cache,       \* self._cache: cache key -> [ref, timestamp]
    _cache_ttl,   \* self._cache_ttl: 3600 as constructed, 0 where set to 0
    heap,         \* the JSON objects parsed so far: reference -> value
    now,          \* time.time(), in seconds
    pc,           \* caller -> "idle" | "awaiting" (suspended in session.post)
    cur,          \* caller -> the (query, variables, cache_key) of its call
    held,         \* caller -> the reference its last call returned (0: none)
    requests,     \* network requests issued so far
    fresh,        \* caller -> no other call completed since this one started
    recency,      \* cache keys from least to most recently read or written
    origin,       \* reference -> the value the network delivered for it
    last,         \* the call that completed last
    _max_retries, \* what getattr(client, "_max_retries", 3) yields
    _retry_delay, \* what getattr(client, "_retry_delay", 1.0) yields
    gq,           \* the graphql_query call: its locals, then its outcome
    batch,        \* the graphql_batch_query call: arguments, then outcome
    task,         \* index -> the run_single task of that item
    semaphore,    \* asyncio.Semaphore(max_concurrency): value and waiters
    completed,    \* the indices whose gateway call ended, in that order
    _schema_cache,    \* graphql._schema_cache: base_url -> [schema, timestamp]
    _schema_lock,     \* the loop's schema lock: its holder and its waiters
    sc,               \* caller -> its graphql_schema call, then its outcome
    introspections,   \* introspection queries issued so far
    workflow,         \* the get_drug_repurposing_candidates call
    fetch,            \* selected target -> its fetch_known_drugs task
    fetch_semaphore,  \* the workflow's asyncio.Semaphore(max_concurrency)
    history           \* whether the order in which the lookups end is kept

\* The client's state other than its session.
clientRest == <<_cache, _cache_ttl, heap, now, pc, cur, held, requests,
                fresh, recency, origin, last>>

\* The state of the raw query gateway (tools/graphql.py).
gatewayVars == <<_max_retries, _retry_delay, gq>>

\* The state of the batch runner (tools/graphql.py).
batchVars == <<batch, task, semaphore, completed>>

\* The state of the schema tool (tools/graphql.py).
schemaVars == <<_schema_cache, _schema_lock, sc, introspections>>

\* The state of the workflow (tools/workflows.py).
workflowVars == <<workflow, fetch, fetch_semaphore, history>>

\* Everything that is not the client's: no operation of the client touches it.
others == <<gatewayVars, batchVars, schemaVars, workflowVars>>

vars == <<session, clientRest, others>>

NoCur ==
    [query |-> "", variables |-> None, cache_key |-> <<>>, lookup |-> ""]

\* The record of a completed call.
\*   outcome   "hit" (answered from the cache), "fetched" (answered from the
\*             network), "raised" (an exception left _query)
\*   error     the exception's type, "" if none
\*   ref, val  the returned reference and the value it had at the return
\*   lookup    what the cache lookup found: "absent", "expired" or "live"
\*   requests  network requests this call issued
\*   status, body  the response it received (0, "" if none)
\*   seq       no other call completed between its start and its return
NoCall ==
    [query |-> "", variables |-> None, outcome |-> "none", error |-> "",
     ref |-> 0, val |-> NoValue, lookup |-> "", requests |-> 0,
     status |-> 0, body |-> "", seq |-> FALSE]

(***************************************************************************)
(* The raw query gateway, GraphqlApi.graphql_query (tools/graphql.py): its *)
(* inputs, the responses it can receive and its pure helpers.              *)
(***************************************************************************)
\* graphql.py:100  getattr(client, "_retry_delay", 1.0)
retry_delay_default == 1

\* The values of the client's retry attributes: every count up to the
\* default, and the delays 0 and the default.
RetryCounts == 1..max_retries

RetryDelays == {0, retry_delay_default}

\* A query text, as its sequence of lines.  A line is
\*   "#c"             a comment
\*   "#mutation"      a comment with the word mutation in it
\*   "query"          an operation definition of type query
\*   "mutation"       an operation definition of type mutation
\*   "junk"           text the GraphQL parser rejects
\*   "junk mutation"  text the parser rejects, with the word mutation in it
QueryTexts ==
    { <<"query">>, <<"#mutation", "query">>, <<"junk">>,
      <<"mutation">>, <<"#c", "mutation">>, <<"query", "mutation">>,
      <<"junk mutation">> }

IsComment(line) == line \in {"#c", "#mutation"}

\* graphql.py:27  _MUTATION_PATTERN = \bmutation\b, searched in the raw text.
MentionsMutation(text) ==
    \E i \in 1..Len(text) : text[i] \in {"mutation", "#mutation", "junk mutation"}

\* graphql.parse: the lexer drops the comments; what is left must be a
\* non-empty sequence of well-formed definitions.
Definitions(text) == SelectSeq(text, LAMBDA line : ~IsComment(line))

ParseFails(text) ==
    \/ Definitions(text) = <<>>
    \/ \E i \in 1..Len(Definitions(text)) :
          Definitions(text)[i] \in {"junk", "junk mutation"}

\* A variant of _contains_mutation that looks only at how the text begins.
ContainsMutationByPrefix(text) ==
    Len(text) > 0 /\ text[1] = "mutation"

\* graphql.py:307-321  _contains_mutation
ContainsMutation(text) ==
    IF ParseFails(text) THEN MentionsMutation(text)
    ELSE \E i \in 1..Len(Definitions(text)) : Definitions(text)[i] = "mutation"

\* A JSON object, as far as the gateway looks at it: its "errors" member
\* ("absent", "empty" for [], "some" for a non-empty list) and its "data"
\* member ("absent", "null", "empty" for {}, "d1" for a non-empty object).
ErrorsMembers == {"absent", "empty", "some"}

DataMembers == {"absent", "null", "empty", "d1"}

Object(errors, data) == [isNone |-> FALSE, errors |-> errors, data |-> data]

NonePayload == [isNone |-> TRUE, errors |-> "absent", data |-> "absent"]

\* The response texts: a JSON object, JSON that is no object, no JSON.
ResponseTexts ==
    [kind : {"object"}, errors : ErrorsMembers, data : DataMembers]
        \cup {[kind |-> k, errors |-> "absent", data |-> "absent"] :
                 k \in {"array", "text"}}

NoText == [kind |-> "", errors |-> "absent", data |-> "absent"]

\* The HTTP statuses of the responses; 0 stands for a transport failure in
\* the record of a call's earlier attempts.
GatewayStatuses == {200, 400, 429, 500}

\* aiohttp ClientResponse.ok
Ok(status) == status < 400

\* graphql.py:284-291  _try_parse_payload: the parsed object, None for text
\* that is no JSON or no JSON object.
TryParsePayload(response_text) ==
    IF response_text.kind = "object"
    THEN Object(response_text.errors, response_text.data)
    ELSE NonePayload

\* Variants of _is_retryable_status: one that leaves 429 out, one that takes
\* every error status.
IsRetryableStatusNo429(status) == status >= 500

IsRetryableStatusAnyError(status) == status >= 400

\* graphql.py:294-295  _is_retryable_status
IsRetryableStatus(status) == status >= 500 \/ status = 429

\* dict.get(member): None for a missing member and for null.
Get(member) == IF member \in {"absent", "null"} THEN "None" ELSE member

\* Python truthiness of a member's value.
Truthy(value) == value \notin {"None", "empty"}

Envelope(status, result, message) ==
    [status |-> status, result |-> result, message |-> message]

NoEnvelope == Envelope("", "None", "None")

\* A variant of _wrap_query_result that tests for errors alone first.
WrapWarnFirst(payload) ==
    LET errors == Get(payload.errors)
        data   == Get(payload.data)
    IN
    IF Truthy(errors) THEN Envelope("warning", data, errors)
    ELSE Envelope("success", data, "None")

\* graphql.py:274-281  _wrap_query_result
WrapQueryResult(payload) ==
    LET errors == Get(payload.errors)
        data   == Get(payload.data)
    IN
    IF Truthy(errors) /\ ~Truthy(data) THEN Envelope("error", "None", errors)
    ELSE IF Truthy(errors) THEN Envelope("warning", data, errors)
    ELSE Envelope("success", data, "None")

\* graphql.py:115-123  the envelope of a 2xx response that is no JSON object.
NonJsonEnvelope ==
    Envelope("error", "None", "Non-JSON response from GraphQL endpoint")

\* graphql.py:145-151  the envelope of any other response: its text, or
\* "HTTP <status>" for an empty text, as the message.
HttpErrorEnvelope == Envelope("error", "None", "response_text")

\* The graphql_query call.
\*   pc        "idle", "awaiting" (suspended in session.post), "sleeping"
\*             (suspended in asyncio.sleep), "done"
\*   query     the query text
\*   attempt   the loop variable
\*   prior     the outcomes of the attempts before the current one: the
\*             status of each response, 0 for a transport failure
\*   requests  requests posted
\*   sleeps    the durations slept
\*   ensured   _ensure_session has been awaited
\* and, when done,
\*   outcome   "returned" or "raised";  error: the exception's type
\*   cause     what ended the call: "validation" (the mutation check),
\*             "closed" (session.post refused: the session is closed),
\*             "transport" (a transport failure), "response"
\*   envelope  the value returned
\*   status, text  the response the call ended on (0, NoText if none)
NoGq ==
    [pc |-> "idle", query |-> <<>>, attempt |-> 0, prior |-> <<>>,
     requests |-> 0, sleeps |-> <<>>, ensured |-> FALSE, outcome |-> "none",
     error |-> "", cause |-> "", envelope |-> NoEnvelope, status |-> 0, text |-> NoText]

\* No graphql_query call is made; the client has no retry attributes, so the
\* defaults apply.
GatewayIdle ==
    /\ _max_retries = max_retries
    /\ _retry_delay = retry_delay_default
    /\ gq = NoGq

(***************************************************************************)
(* The batch runner, GraphqlApi.graphql_batch_query (tools/graphql.py):    *)
(* its inputs and its pure helpers.                                        *)
(***************************************************************************)
\* graphql.py:36
MAX_GRAPHQL_BATCH_ITEMS == 500

\* graphql.py:37
MAX_GRAPHQL_BATCH_CONCURRENCY == 20

\* An entry of variables_list: a dict, with its "id" member ("absent" if it
\* has none; a JSON string or a JSON number otherwise), or something that is
\* no dict.
Item(isDict, id) == [isDict |-> isDict, id |-> id]

NotADict == Item(FALSE, "absent")

\* The lists passed as variables_list: the empty one, lists of one to three
\* entries, and one of MAX_GRAPHQL_BATCH_ITEMS + 1 entries.
VariablesLists ==
    { <<>>,
      <<Item(TRUE, "\"a\"")>>,
      <<Item(TRUE, "\"a\""), Item(TRUE, "7")>>,
      <<Item(TRUE, "\"a\""), NotADict, Item(TRUE, "absent")>>,
      <<Item(TRUE, "\"a\""), Item(TRUE, "7"), Item(TRUE, "\"b\"")>>,
      [i \in 1..(MAX_GRAPHQL_BATCH_ITEMS + 1) |-> Item(TRUE, "absent")] }

\* The indices of the entries of the lists that are run.
Indices ==
    UNION { DOMAIN l : l \in { v \in VariablesLists :
                                  Len(v) <= MAX_GRAPHQL_BATCH_ITEMS } }

\* key_field: None, or the name of a member.
KeyFields == {"None", "id"}

\* max_concurrency: below, at and above its two limits, and between them.
Concurrencies ==
    {0, 1, 2, MAX_GRAPHQL_BATCH_CONCURRENCY, MAX_GRAPHQL_BATCH_CONCURRENCY + 1}

\* The query texts of a batch: a query and a mutation.
BatchTexts == { <<"query">>, <<"mutation">> }

\* The exceptions that leave graphql_query: ValidationError (graphql.py:89)
\* and NetworkError (graphql.py:153-167), both ordinary exception classes.
GatewayErrors == {"ValidationError", "NetworkError"}

\* A variant of the handler below that catches ValidationError only.
ExceptValidationErrorOnly(error) == error = "ValidationError"

\* graphql.py:234  except Exception: the handler of run_single catches the
\* exception.
ExceptException(error) == error \in GatewayErrors

\* str(value) of a member's value: a string's characters, a number's digits.
StrOf(value) ==
    CASE value = "\"a\"" -> "a"
      [] value = "\"b\"" -> "b"
      [] OTHER -> value

\* graphql.py:226  key = str(item.get(key_field)) if key_field and
\* key_field in item else None
KeyOf(item, key_field) ==
    IF key_field # "None" /\ item.id # "absent" THEN StrOf(item.id) ELSE "None"

\* A variant of the validation below without the lower limit of
\* max_concurrency.
BatchValidationNoFloor(length, max_concurrency) ==
    IF length = 0 THEN "variables_list cannot be empty."
    ELSE IF length > MAX_GRAPHQL_BATCH_ITEMS
    THEN "variables_list cannot exceed MAX_GRAPHQL_BATCH_ITEMS items."
    ELSE IF max_concurrency > MAX_GRAPHQL_BATCH_CONCURRENCY
    THEN "max_concurrency must be <= MAX_GRAPHQL_BATCH_CONCURRENCY."
    ELSE ""

\* graphql.py:197-209  the message of the ValidationError raised for a list
\* of that length and that max_concurrency, "" if none is raised.
BatchValidation(length, max_concurrency) ==
    IF length = 0 THEN "variables_list cannot be empty."
    ELSE IF length > MAX_GRAPHQL_BATCH_ITEMS
    THEN "variables_list cannot exceed MAX_GRAPHQL_BATCH_ITEMS items."
    ELSE IF max_concurrency < 1 THEN "max_concurrency must be >= 1."
    ELSE IF max_concurrency > MAX_GRAPHQL_BATCH_CONCURRENCY
    THEN "max_concurrency must be <= MAX_GRAPHQL_BATCH_CONCURRENCY."
    ELSE ""

\* graphql.py:211  asyncio.Semaphore(max_concurrency)
NewSemaphore(max_concurrency) ==
    [value |-> max_concurrency, waiters |-> <<>>]

\* A variant of Semaphore.locked that never sends a task to wait.
NeverLocked(sem) == FALSE

\* asyncio.Semaphore.locked: no slot is free, or tasks are waiting for one.
Locked(sem) == sem.value = 0 \/ sem.waiters # <<>>

\* A variant of the release below that keeps the slot.
SlotKept(sem) == sem

\* graphql.py:227  leaving "async with semaphore", by return or by
\* exception, calls Semaphore.release: one more slot is free.
Release(sem) == [sem EXCEPT !.value = @ + 1]

\* The run_single task of an entry.
\*   pc      "created", "waiting" (in semaphore.acquire), "inflight"
\*           (suspended in graphql_query), "done"
\*   key     the entry's key
\*   status  the status of its result envelope, once done
\*   raised  the envelope was made from an exception of graphql_query
\*   answer  how the task's graphql_query call ended: the status of the
\*           envelope it returned or the type of the exception it raised;
\*           "" while it has not ended or if it was never made
NewTask ==
    [pc |-> "created", key |-> "None", status |-> "", raised |-> FALSE,
     answer |-> ""]

\* The graphql_batch_query call.
\*   pc       "idle", "running", "done"
\*   query_string, variables_list, key_field, max_concurrency  its arguments
\*            (of a rejected call the list's length only is kept)
\*   invoked  graphql_query invocations begun
\*   outcome  "returned" or "raised";  error, message: the exception's
\*            type and message
\*   status, summary, results  the returned value
NoSummary == [total |-> 0, successful |-> 0, warning |-> 0, failed |-> 0]

NoBatch ==
    [pc |-> "idle", query_string |-> <<>>, variables_list |-> <<>>,
     length |-> 0, key_field |-> "None", max_concurrency |-> 0,
     invoked |-> 0, outcome |-> "none", error |-> "", message |-> "",
     status |-> "",
     summary |-> NoSummary, results |-> <<>>]

\* No graphql_batch_query call is made.
BatchIdle ==
    /\ batch = NoBatch
    /\ task = <<>>
    /\ semaphore = NewSemaphore(0)
    /\ completed = <<>>

(***************************************************************************)
(* The schema tool, GraphqlApi.graphql_schema (tools/graphql.py): its      *)
(* cache, its lock and its calls.                                          *)
(***************************************************************************)
(* The workflow, WorkflowApi.get_drug_repurposing_candidates               *)
(* (tools/workflows.py): its inputs, the responses it can receive and its  *)
(* pure helpers.  Scores are counted in tenths: 2 is 0.2 and 10 is 1.0.    *)
(***************************************************************************)
\* workflows.py:15
MAX_WORKFLOW_TARGETS == 200

\* workflows.py:16
MAX_WORKFLOW_DRUGS_PER_TARGET == 100

\* workflows.py:17
MAX_WORKFLOW_CANDIDATES == 200

\* workflows.py:18
MAX_WORKFLOW_CONCURRENCY == 20

\* workflows.py:58-64  the defaults of the keyword arguments.
DefaultArguments ==
    [min_association_score |-> 2, max_targets |-> 20,
     min_clinical_phase |-> 2, approved_only |-> FALSE,
     max_drugs_per_target |-> 30, max_candidates |-> 50,
     max_concurrency |-> 4]

\* Arguments within their ranges: the defaults, each range's ends, and the
\* settings the filters and the truncation are exercised with.
AcceptedArguments ==
    { DefaultArguments,
      [DefaultArguments EXCEPT !.min_association_score = 0,
                               !.max_targets = 1],
      [DefaultArguments EXCEPT !.min_association_score = 10,
                               !.max_targets = MAX_WORKFLOW_TARGETS],
      [DefaultArguments EXCEPT !.min_clinical_phase = 0],
      [DefaultArguments EXCEPT !.min_clinical_phase = 0,
                               !.approved_only = TRUE],
      [DefaultArguments EXCEPT !.min_clinical_phase = 0,
                               !.max_concurrency = 1],
      [DefaultArguments EXCEPT !.min_clinical_phase = 0,
                               !.max_drugs_per_target = 1,
                               !.max_concurrency = 2],
      [DefaultArguments EXCEPT !.min_clinical_phase = 0,
                               !.max_candidates = 1,
                               !.max_concurrency = MAX_WORKFLOW_CONCURRENCY],
      [DefaultArguments EXCEPT
          !.max_drugs_per_target = MAX_WORKFLOW_DRUGS_PER_TARGET,
          !.max_candidates = MAX_WORKFLOW_CANDIDATES] }

\* Arguments with one value outside its range.
RefusedArguments ==
    { [DefaultArguments EXCEPT !.min_association_score = s] : s \in {-1, 12} }
    \cup { [DefaultArguments EXCEPT !.max_targets = n] :
              n \in {0, MAX_WORKFLOW_TARGETS + 1} }
    \cup { [DefaultArguments EXCEPT !.min_clinical_phase = -1] }
    \cup { [DefaultArguments EXCEPT !.max_drugs_per_target = n] :
              n \in {0, MAX_WORKFLOW_DRUGS_PER_TARGET + 1} }
    \cup { [DefaultArguments EXCEPT !.max_candidates = n] :
              n \in {0, MAX_WORKFLOW_CANDIDATES + 1} }
    \cup { [DefaultArguments EXCEPT !.max_concurrency = n] :
              n \in {0, MAX_WORKFLOW_CONCURRENCY + 1} }

Arguments == AcceptedArguments \cup RefusedArguments

\* A variant of the validation below without the upper limits.
WorkflowValidationNoCaps(a) ==
    IF ~(0 <= a.min_association_score /\ a.min_association_score <= 10)
    THEN "min_association_score must be between 0 and 1."
    ELSE IF a.max_targets < 1 THEN "max_targets must be >= 1."
    ELSE IF a.min_clinical_phase < 0 THEN "min_clinical_phase must be >= 0."
    ELSE IF a.max_drugs_per_target < 1
    THEN "max_drugs_per_target must be >= 1."
    ELSE IF a.max_candidates < 1 THEN "max_candidates must be >= 1."
    ELSE IF a.max_concurrency < 1 THEN "max_concurrency must be >= 1."
    ELSE ""

\* workflows.py:87-115  the message of the ValidationError raised for these
\* arguments, "" if none is raised.
WorkflowValidation(a) ==
    IF ~(0 <= a.min_association_score /\ a.min_association_score <= 10)
    THEN "min_association_score must be between 0 and 1."
    ELSE IF a.max_targets < 1 THEN "max_targets must be >= 1."
    ELSE IF a.max_targets > MAX_WORKFLOW_TARGETS
    THEN "max_targets must be <= MAX_WORKFLOW_TARGETS."
    ELSE IF a.min_clinical_phase < 0 THEN "min_clinical_phase must be >= 0."
    ELSE IF a.max_drugs_per_target < 1
    THEN "max_drugs_per_target must be >= 1."
    ELSE IF a.max_drugs_per_target > MAX_WORKFLOW_DRUGS_PER_TARGET
    THEN "max_drugs_per_target must be <= MAX_WORKFLOW_DRUGS_PER_TARGET."
    ELSE IF a.max_candidates < 1 THEN "max_candidates must be >= 1."
    ELSE IF a.max_candidates > MAX_WORKFLOW_CANDIDATES
    THEN "max_candidates must be <= MAX_WORKFLOW_CANDIDATES."
    ELSE IF a.max_concurrency < 1 THEN "max_concurrency must be >= 1."
    ELSE IF a.max_concurrency > MAX_WORKFLOW_CONCURRENCY
    THEN "max_concurrency must be <= MAX_WORKFLOW_CONCURRENCY."
    ELSE ""

\* The values of efo_id that match a disease-ID pattern: the ones the tests
\* pass as canonical identifiers, and the ones map_ids answers with.
_DISEASE_ID_PATTERNS == {"EFO_1", "EFO_A", "EFO_B", "EFO_C"}

\* workflows.py:30  _looks_like_id(value, _DISEASE_ID_PATTERNS)
_looks_like_id(value, patterns) == value \in patterns

\* The values passed as efo_id: an identifier and a disease name.
EfoIds == {"EFO_1", "disease by name"}

\* A variant of the test below that looks every value up.
AlwaysLooksUp(value) == TRUE

\* workflows.py:30-33  the value is looked up with map_ids.
NeedsLookup(value) == ~_looks_like_id(value, _DISEASE_ID_PATTERNS)

\* A hit of a mapping: a dict with its id ("" if it has none) and its score
\* (hasScore FALSE if it has none), or something that is no dict.
Hit(id, score) ==
    [isDict |-> TRUE, id |-> id, hasScore |-> TRUE, score |-> score]

HitWithoutScore(id) ==
    [isDict |-> TRUE, id |-> id, hasScore |-> FALSE, score |-> 0]

NotAHit == [isDict |-> FALSE, id |-> "", hasScore |-> FALSE, score |-> 0]

\* An entry of mappings: a dict with its hits, or something that is no dict.
Mapping(hits) == [isDict |-> TRUE, hits |-> hits]

NotAMapping == [isDict |-> FALSE, hits |-> <<>>]

\* What map_ids returns: mapIds.mappings, a list or not.
Mappings(list) == [isList |-> TRUE, mappings |-> list]

MappingsNotAList == [isList |-> FALSE, mappings |-> <<>>]

\* The answers of map_ids: no mapping, a mapping without hits, one hit,
\* hits with a tie for the best score (before and after a lower one), a best
\* hit without id, hits that are no dicts, two mappings, a first mapping
\* that is no dict, hits without score, mappings that are no list.
MapIdsResponses ==
    { Mappings(<<>>),
      Mappings(<<Mapping(<<>>)>>),
      Mappings(<<Mapping(<<Hit("EFO_A", 9)>>)>>),
      Mappings(<<Mapping(<<Hit("EFO_A", 5), Hit("EFO_B", 9),
                           Hit("EFO_C", 9)>>)>>),
      Mappings(<<Mapping(<<Hit("EFO_C", 9), Hit("EFO_B", 9),
                           Hit("EFO_A", 10)>>)>>),
      Mappings(<<Mapping(<<Hit("", 9), Hit("EFO_A", 5)>>)>>),
      Mappings(<<Mapping(<<NotAHit>>)>>),
      Mappings(<<Mapping(<<NotAHit, Hit("EFO_B", 1)>>)>>),
      Mappings(<<Mapping(<<Hit("EFO_A", 5)>>), Mapping(<<Hit("EFO_B", 9)>>)>>),
      Mappings(<<NotAMapping, Mapping(<<Hit("EFO_A", 5)>>)>>),
      Mappings(<<Mapping(<<HitWithoutScore("EFO_A"), Hit("EFO_B", 0)>>)>>),
      MappingsNotAList }

\* workflows.py:46  key=lambda hit: hit.get("score", 0)
ScoreOf(hit) == IF hit.hasScore THEN hit.score ELSE 0

\* A variant of the scan below that keeps the last of the best hits.
RECURSIVE MaxScanKeepsLast(_, _, _)
MaxScanKeepsLast(hits, best, n) ==
    IF n > Len(hits) THEN best
    ELSE MaxScanKeepsLast(hits,
                          IF ScoreOf(hits[n]) >= ScoreOf(hits[best])
                          THEN n ELSE best,
                          n + 1)

\* workflows.py:46  max(hit_dicts, key=...): the scan of the built-in max
\* from position n on, best being the position of the maximum so far; a
\* later hit replaces it only if its key is greater.
RECURSIVE MaxScan(_, _, _)
MaxScan(hits, best, n) ==
    IF n > Len(hits) THEN best
    ELSE MaxScan(hits,
                 IF ScoreOf(hits[n]) > ScoreOf(hits[best]) THEN n ELSE best,
                 n + 1)

IsDictEntry(entry) == entry.isDict

\* workflows.py:38-52  the identifier _resolve_disease_id returns for an
\* answer of map_ids, "" where it raises ValidationError.
BestId(mapping) ==
    IF ~mapping.isList \/ mapping.mappings = <<>> THEN ""
    ELSE LET first_mapping == IF mapping.mappings[1].isDict
                              THEN mapping.mappings[1] ELSE Mapping(<<>>)
             hits == first_mapping.hits
             hit_dicts == SelectSeq(hits, IsDictEntry)
         IN IF hits = <<>> THEN ""
            ELSE IF hit_dicts = <<>> THEN ""
            ELSE hit_dicts[MaxScan(hit_dicts, 1, 2)].id

\* A row of associatedTargets: a dict with its score (numeric FALSE if it is
\* no number) and its target's id ("" if it has none), or something that is
\* no dict.
TargetRow(id, score) ==
    [isDict |-> TRUE, numeric |-> TRUE, score |-> score, id |-> id]

TargetRowWithoutScore(id) ==
    [isDict |-> TRUE, numeric |-> FALSE, score |-> 0, id |-> id]

NotATargetRow == [isDict |-> FALSE, numeric |-> FALSE, score |-> 0, id |-> ""]

\* The rows get_disease_associated_targets answers with: those of the test
\* (0.91, 0.74 and 0.09, in tenths), rows with a score at the default
\* threshold, without score, without target id and no dict, rows with equal
\* scores, and none.
AssociatedTargets ==
    { <<TargetRow("T1", 9), TargetRow("T2", 7), TargetRow("T3", 1)>>,
      <<TargetRow("T1", 2), NotATargetRow, TargetRowWithoutScore("T2"),
        TargetRow("", 9), TargetRow("T3", 10)>>,
      <<TargetRow("T1", 7), TargetRow("T2", 7), TargetRow("T3", 9)>>,
      <<>> }

\* workflows.py:137-145  the row is kept.
PassesScoreFilter(row, a) ==
    /\ row.isDict
    /\ row.numeric /\ ~(row.score < a.min_association_score)
    /\ row.id # ""

\* workflows.py:135-153  selected_targets
SelectedTargets(rows, a) ==
    LET Kept(row) == PassesScoreFilter(row, a)
        kept == SelectSeq(rows, Kept)
    IN [n \in 1..Len(kept) |->
           [target_id |-> kept[n].id, association_score |-> kept[n].score]]

\* The tasks gather runs: one per selected target.
Targets == 1..3

\* The value of "phase" in a known-drug row: an int, a string, or None.
PhaseInt(n) == [type |-> "int", value |-> n, text |-> ""]

PhaseStr(text) == [type |-> "str", value |-> 0, text |-> text]

PhaseNone == [type |-> "NoneType", value |-> 0, text |-> ""]

\* A row of knownDrugs: a dict with drug.id and drugId ("" if absent), its
\* phase and drug.isApproved, or something that is no dict.
DrugRow(id, drugId, phase, isApproved) ==
    [isDict |-> TRUE, drug |-> [id |-> id, isApproved |-> isApproved],
     drugId |-> drugId, phase |-> phase]

NotADrugRow ==
    [isDict |-> FALSE, drug |-> [id |-> "", isApproved |-> FALSE],
     drugId |-> "", phase |-> PhaseNone]

\* What get_target_known_drugs returns: target.knownDrugs with its rows, or
\* a target whose knownDrugs is null.
KnownDrugs(rows) == [knownDrugs |-> TRUE, rows |-> rows]

NullKnownDrugs == [knownDrugs |-> FALSE, rows |-> <<>>]

\* The answers of get_target_known_drugs: those of the tests, one late-phase
\* row of a drug that is not approved, no row, null, and rows that are no
\* dict, have no drug id, name the drug by drugId only, or carry their phase
\* as a string or not at all.
KnownDrugsResponses ==
    { KnownDrugs(<<DrugRow("A", "A", PhaseInt(4), TRUE),
                   DrugRow("B", "B", PhaseInt(1), FALSE)>>),
      KnownDrugs(<<DrugRow("A", "A", PhaseInt(3), FALSE),
                   DrugRow("C", "C", PhaseInt(2), FALSE)>>),
      KnownDrugs(<<DrugRow("B", "B", PhaseInt(4), FALSE),
                   DrugRow("B", "B", PhaseInt(2), FALSE)>>),
      KnownDrugs(<<NotADrugRow,
                   DrugRow("", "", PhaseInt(4), TRUE),
                   DrugRow("", "C", PhaseStr("3"), TRUE),
                   DrugRow("B", "B", PhaseNone, FALSE),
                   DrugRow("A", "A", PhaseStr("III"), FALSE)>>),
      KnownDrugs(<<>>),
      NullKnownDrugs }

\* str.isdigit and int of the strings above.
IsDigit(text) == text = "3"

IntOf(text) == IF text = "3" THEN 3 ELSE 0

\* workflows.py:200-202  the phase of a row.
PhaseOf(row) ==
    IF row.phase.type = "NoneType" THEN 0
    ELSE IF row.phase.type = "int" THEN row.phase.value
    ELSE IF IsDigit(row.phase.text) THEN IntOf(row.phase.text)
    ELSE 0

\* workflows.py:196  drug.get("id") or row.get("drugId")
DrugIdOf(row) == IF row.drug.id # "" THEN row.drug.id ELSE row.drugId

\* A variant of the filter below that ignores approved_only.
ExcludedByPhaseOnly(row, a) ==
    \/ ~row.isDict
    \/ DrugIdOf(row) = ""
    \/ PhaseOf(row) < a.min_clinical_phase

\* workflows.py:193-208  the row is skipped.
Excluded(row, a) ==
    \/ ~row.isDict
    \/ DrugIdOf(row) = ""
    \/ PhaseOf(row) < a.min_clinical_phase
    \/ (a.approved_only /\ ~row.drug.isApproved)

Max(x, y) == IF x >= y THEN x ELSE y

Min(x, y) == IF x <= y THEN x ELSE y

\* workflows.py:211-218  support_row
SupportRow(target, row) ==
    [targetId |-> target.target_id,
     associationScore |-> target.association_score,
     phase |-> PhaseOf(row)]

\* workflows.py:221-234  the candidate made from the first row of a drug.
NewCandidate(target, row) ==
    [id |-> DrugIdOf(row), isApproved |-> row.drug.isApproved,
     bestAssociationScore |-> target.association_score,
     bestPhase |-> PhaseOf(row),
     supportingTargets |-> <<SupportRow(target, row)>>]

\* A variant of the update below in which the last row's values replace the
\* candidate's.
UpdatedByLastRow(existing, target, row) ==
    [existing EXCEPT
        !.bestAssociationScore = target.association_score,
        !.bestPhase = PhaseOf(row),
        !.isApproved = row.drug.isApproved,
        !.supportingTargets = Append(@, SupportRow(target, row))]

\* workflows.py:237-243  the candidate after a further row of its drug.
Updated(existing, target, row) ==
    [existing EXCEPT
        !.bestAssociationScore = Max(@, target.association_score),
        !.bestPhase = Max(@, PhaseOf(row)),
        !.isApproved = IF row.drug.isApproved THEN TRUE ELSE @,
        !.supportingTargets = Append(@, SupportRow(target, row))]

\* workflows.py:193-243  candidates_by_drug, in insertion order, after one
\* more row.
MergeRow(candidates, target, row, a) ==
    IF Excluded(row, a) THEN candidates
    ELSE LET at == { n \in 1..Len(candidates) :
                        candidates[n].id = DrugIdOf(row) }
         IN IF at = {} THEN Append(candidates, NewCandidate(target, row))
            ELSE LET n == CHOOSE n \in at : TRUE
                 IN [candidates EXCEPT ![n] = Updated(@, target, row)]

\* workflows.py:186-192  the rows the merge visits, with their targets: of
\* each successful lookup, in the order of the targets, the first
\* max_drugs_per_target rows.
RECURSIVE Visited(_, _)
Visited(target_drug_sets, a) ==
    IF target_drug_sets = <<>> THEN <<>>
    ELSE LET item == Head(target_drug_sets)
             count == Min(Len(item.known_drugs), a.max_drugs_per_target)
         IN [n \in 1..count |->
                [target |-> item.target, row |-> item.known_drugs[n]]]
            \o Visited(Tail(target_drug_sets), a)

\* workflows.py:183-243  candidates_by_drug after the first n visited rows.
RECURSIVE Merged(_, _, _)
Merged(visited, n, a) ==
    IF n = 0 THEN <<>>
    ELSE MergeRow(Merged(visited, n - 1, a),
                  visited[n].target, visited[n].row, a)

\* The comparison of two key tuples of the same length.
TupleGreater(x, y) ==
    \E k \in 1..Len(x) : x[k] > y[k] /\ \A m \in 1..(k - 1) : x[m] = y[m]

\* sorted(..., key=..., reverse=True), keys[i] being the key of list[i]:
\* descending by key, entries of equal keys staying in their order.
SortedDescending(list, keys) ==
    LET n == Len(list)
        Rank(i) == 1 + Cardinality(
            { j \in 1..n :
                \/ TupleGreater(keys[j], keys[i])
                \/ (keys[j] = keys[i] /\ j < i) })
    IN [p \in 1..n |-> list[CHOOSE i \in 1..n : Rank(i) = p]]

\* workflows.py:250-253  the key of a supporting row.
SupportKey(entry) == <<entry.associationScore, entry.phase>>

\* workflows.py:262-267  the key of a candidate (False < True as 0 < 1).
CandidateKey(candidate) ==
    <<IF candidate.isApproved THEN 1 ELSE 0,
      candidate.bestAssociationScore, candidate.bestPhase,
      candidate.supportingTargetCount>>

\* A variant of the count below that counts the supporting rows.
CountedByRows(candidate) ==
    [id |-> candidate.id, isApproved |-> candidate.isApproved,
     bestAssociationScore |-> candidate.bestAssociationScore,
     bestPhase |-> candidate.bestPhase,
     supportingTargets |->
         SortedDescending(candidate.supportingTargets,
                          [n \in 1..Len(candidate.supportingTargets) |->
                              SupportKey(candidate.supportingTargets[n])]),
     supportingTargetCount |-> Len(candidate.supportingTargets)]

\* workflows.py:246-259  a candidate with its supporting rows sorted and its
\* number of distinct supporting targets.
Counted(candidate) ==
    [id |-> candidate.id, isApproved |-> candidate.isApproved,
     bestAssociationScore |-> candidate.bestAssociationScore,
     bestPhase |-> candidate.bestPhase,
     supportingTargets |->
         SortedDescending(candidate.supportingTargets,
                          [n \in 1..Len(candidate.supportingTargets) |->
                              SupportKey(candidate.supportingTargets[n])]),
     supportingTargetCount |->
         Cardinality({ candidate.supportingTargets[n].targetId :
                          n \in 1..Len(candidate.supportingTargets) })]

\* A variant of the ranking below that truncates before it sorts.
RankedAfterTruncation(candidates_by_drug, a) ==
    LET counted == [n \in 1..Len(candidates_by_drug) |->
                       Counted(candidates_by_drug[n])]
        cut == SubSeq(counted, 1, Min(Len(counted), a.max_candidates))
    IN SortedDescending(cut, [n \in 1..Len(cut) |-> CandidateKey(cut[n])])

\* workflows.py:245-270  the returned candidates.
Ranked(candidates_by_drug, a) ==
    LET counted == [n \in 1..Len(candidates_by_drug) |->
                       Counted(candidates_by_drug[n])]
        sorted == SortedDescending(counted,
                                   [n \in 1..Len(counted) |->
                                       CandidateKey(counted[n])])
    IN SubSeq(sorted, 1, Min(Len(sorted), a.max_candidates))

\* A variant of gather's setting below: the default of asyncio.gather.
return_exceptions_false == FALSE

\* workflows.py:174  gather(..., return_exceptions=True)
return_exceptions == TRUE

\* The fetch_known_drugs task of a selected target.
\*   pc       "created", "waiting" (in semaphore.acquire), "inflight"
\*            (suspended in get_target_known_drugs), "done"
\*   raised   the task ended in an exception;  error: its type
\*   known_drugs  the rows the task returned
NewFetch ==
    [pc |-> "created", raised |-> FALSE, error |-> "", known_drugs |-> <<>>]

NoWorkflowSummary ==
    [targetsEvaluated |-> 0, targetsPassedScoreFilter |-> 0,
     targetsWithKnownDrugs |-> 0, targetsFailedDrugLookup |-> 0,
     uniqueDrugCandidates |-> 0]

\* The get_drug_repurposing_candidates call.
\*   pc       "idle", "resolving" (suspended in map_ids), "associations"
\*            (suspended in get_disease_associated_targets), "lookups" (in
\*            gather), "done"
\*   efo_id, arguments   its arguments
\*   queries  calls of the domain APIs begun;  map_ids: those of map_ids
\*   mapping  the answer of map_ids, once it returned
\*   resolved_efo_id, all_target_rows, selected_targets  its locals
\*   outcome  "returned" or "raised";  error, message: the exception's
\*            type and message
\*   completed  the tasks of gather in the order they ended, a history
\*            kept only when `history` is on
\*   summary, targets, candidates  the returned value
NoWorkflow ==
    [pc |-> "idle", efo_id |-> "", arguments |-> DefaultArguments,
     queries |-> 0, map_ids |-> 0, mapping |-> <<>>,
     resolved_efo_id |-> "",
     all_target_rows |-> <<>>, selected_targets |-> <<>>,
     outcome |-> "none", error |-> "", message |-> "", completed |-> <<>>,
     summary |-> NoWorkflowSummary, targets |-> <<>>, candidates |-> <<>>]

\* No get_drug_repurposing_candidates call is made.
WorkflowIdle ==
    /\ workflow = NoWorkflow
    /\ fetch = <<>>
    /\ fetch_semaphore = NewSemaphore(0)
    /\ history = FALSE

(***************************************************************************)
\* graphql.py:29
_SCHEMA_CACHE_TTL == 3600

\* The base_url of the clients the tool is called with.
Urls == {"https://api.one/graphql", "https://api.two/graphql"}

\* The SDL text printed from the n-th introspection: the endpoint that
\* answered it, and when.
Schema(url, n, at) == [from |-> url, serial |-> n, at |-> at]

NoSchema == Schema("", 0, 0)

\* asyncio.Lock(), not held.
NewLock == [holder |-> "", waiters |-> <<>>]

\* A variant of Lock.locked under which no caller ever waits.
LockNeverLocked(lock) == FALSE

\* asyncio.Lock.acquire waits when the lock is held or others wait for it.
LockLocked(lock) == lock.holder # "" \/ lock.waiters # <<>>

\* A variant of the release below that keeps the lock held.
LockKept(lock) == lock

\* graphql.py:50  leaving "async with", by return or by exception, calls
\* Lock.release.
LockRelease(lock) == [lock EXCEPT !.holder = ""]

\* A graphql_schema call.
\*   pc            "idle", "waiting" (for the lock), "introspecting"
\*                 (suspended in client._query), "done"
\*   url           client.base_url
\*   current_time  time.time() as read on entry
\*   issued        the call issued an introspection query;  serial: which
\*   waitedOn      the introspection in flight when the call began to wait
\*                 (0 if none);  behindSame: it was for the same url
\*   outcome       "returned" or "raised";  error: the exception's type
\*   schema        the returned text;  stamp: the timestamp of its entry
\*   returnedAt    time.time() at the return
NoSc ==
    [pc |-> "idle", url |-> "", current_time |-> 0, issued |-> FALSE,
     serial |-> 0, waitedOn |-> 0, behindSame |-> FALSE, outcome |-> "none",
     error |-> "", schema |-> NoSchema, stamp |-> 0, returnedAt |-> 0]

\* The module as imported: an empty schema cache, no call made.
SchemaIdle ==
    /\ _schema_cache = [u \in {} |-> 0]
    /\ _schema_lock = NewLock
    /\ sc = [c \in Callers |-> NoSc]
    /\ introspections = 0

\* queries.py:9-13  a new client: no session, an empty cache.  The TTL is an
\* attribute of the instance; both the constructor's value and 0 (caching
\* switched off) are covered.
ClientInit ==
    /\ session = "none"
    /\ _cache = [k \in {} |-> 0]
    /\ _cache_ttl \in {0, CACHE_TTL_DEFAULT}
    /\ heap = <<>>
    /\ now = 0
    /\ pc = [c \in Callers |-> "idle"]
    /\ cur = [c \in Callers |-> NoCur]
    /\ held = [c \in Callers |-> 0]
    /\ requests = 0
    /\ fresh = [c \in Callers |-> FALSE]
    /\ recency = <<>>
    /\ origin = <<>>
    /\ last = NoCall

\* The client as constructed; nothing else is in use.
Init ==
    /\ ClientInit
    /\ GatewayIdle
    /\ BatchIdle
    /\ SchemaIdle
    /\ WorkflowIdle

(***************************************************************************)
(* Helpers.                                                                *)
(***************************************************************************)
\* queries.py:15-17  _ensure_session: a session is created only when
\* self.session is None; a closed session object is kept.
EnsureSession(s) == IF s = "none" THEN "open" ELSE s

\* queries.py:23-25  what the lookup finds for a key.
Lookup(key) ==
    IF key \notin DOMAIN _cache THEN "absent"
    ELSE IF now - _cache[key].timestamp < _cache_ttl THEN "live"
    ELSE "expired"

\* A lookup that answers from the cache whenever the key is present,
\* whatever the age of the entry.
CacheHitAtAnyAge(key) == key \in DOMAIN _cache

\* queries.py:23-26  the lookup answers from the cache when the key is
\* present and the entry is younger than the TTL.
CacheHit(key) == Lookup(key) = "live"

\* queries.py:42  self._cache[cache_key] = (result, time.time())
CacheStore(key, ref) ==
    [k \in DOMAIN _cache \cup {key} |->
        IF k = key THEN [ref |-> ref, timestamp |-> now] ELSE _cache[k]]

\* The key moved to the most-recently-used end of the recency order.
Touch(key) ==
    SelectSeq(recency, LAMBDA k : k # key) \o <<key>>

\* A call completes with record rec: it becomes `last`, and every call in
\* flight has now seen a completion since it started.
Complete(rec) ==
    /\ last' = rec
    /\ fresh' = [d \in Callers |-> FALSE]

CallRec(q, v, outcome, error, ref, val, lookup, nreq, status, body, seq) ==
    [query |-> q, variables |-> v, outcome |-> outcome, error |-> error,
     ref |-> ref, val |-> val, lookup |-> lookup, requests |-> nreq,
     status |-> status, body |-> body, seq |-> seq]

(***************************************************************************)
(* _query, up to its first suspension (queries.py:19-36).                  *)
(***************************************************************************)
\* The lookup hits: the cached object itself is returned (queries.py:26).
QueryHit(c, q, v) ==
    LET key == CacheKey(q, v) IN
    /\ pc[c] = "idle"
    /\ CacheHit(key)
    /\ session' = EnsureSession(session)
    /\ held' = [held EXCEPT ![c] = _cache[key].ref]
    /\ recency' = Touch(key)
    /\ Complete(CallRec(q, v, "hit", "", _cache[key].ref,
                        heap[_cache[key].ref], Lookup(key), 0, 0, "", TRUE))
    /\ UNCHANGED others
    /\ UNCHANGED <<_cache, _cache_ttl, heap, now, pc, cur, requests, origin>>

\* The lookup misses and the session is closed: session.post raises
\* RuntimeError("Session is closed") before anything is sent.
QueryOnClosed(c, q, v) ==
    LET key == CacheKey(q, v) IN
    /\ pc[c] = "idle"
    /\ ~CacheHit(key)
    /\ EnsureSession(session) = "closed"
    /\ held' = [held EXCEPT ![c] = 0]
    /\ Complete(CallRec(q, v, "raised", "RuntimeError", 0, NoValue,
                        Lookup(key), 0, 0, "", TRUE))
    /\ UNCHANGED others
    /\ UNCHANGED <<session, _cache, _cache_ttl, heap, now, pc, cur, requests,
                   recency, origin>>

\* The lookup misses: the request is posted and the caller suspends.
QueryPost(c, q, v) ==
    LET key == CacheKey(q, v) IN
    /\ pc[c] = "idle"
    /\ ~CacheHit(key)
    /\ EnsureSession(session) = "open"
    /\ requests < MaxRequests
    /\ session' = "open"
    /\ pc' = [pc EXCEPT ![c] = "awaiting"]
    /\ cur' = [cur EXCEPT ![c] = [query |-> q, variables |-> v,
                                  cache_key |-> key, lookup |-> Lookup(key)]]
    /\ held' = [held EXCEPT ![c] = 0]
    /\ requests' = requests + 1
    /\ fresh' = [fresh EXCEPT ![c] = TRUE]
    /\ UNCHANGED others
    /\ UNCHANGED <<_cache, _cache_ttl, heap, now, recency, origin, last>>

(***************************************************************************)
(* _query, from the response to its return (queries.py:36-43).             *)
(***************************************************************************)
Raise(c, error, status, body) ==
    /\ pc' = [pc EXCEPT ![c] = "idle"]
    /\ cur' = [cur EXCEPT ![c] = NoCur]
    /\ Complete(CallRec(cur[c].query, cur[c].variables, "raised", error,
                        0, NoValue, cur[c].lookup, 1, status, body, fresh[c]))
    /\ UNCHANGED others
    /\ UNCHANGED <<session, _cache, _cache_ttl, heap, now, held, requests,
                   recency, origin>>

\* The request fails in transport: aiohttp.ClientError leaves _query.
TransportError(c) ==
    /\ pc[c] = "awaiting"
    /\ Raise(c, "ClientError", 0, "")

\* response.json() cannot parse the body: its error leaves _query.
RespondNonJson(c, status) ==
    /\ pc[c] = "awaiting"
    /\ Raise(c, "JSONError", status, "nonjson")

\* queries.py:39-40  the parsed object has an "errors" member.
RespondErrors(c, status, body) ==
    /\ pc[c] = "awaiting"
    /\ Parsed(body, "d1").errors
    /\ Raise(c, "Exception", status, body)

\* queries.py:42-43  the parsed object is stored and returned, whatever the
\* status of the response was.
RespondData(c, status, d) ==
    LET ref == Len(heap) + 1
        val == Parsed("data", d)
    IN
    /\ pc[c] = "awaiting"
    /\ heap' = Append(heap, val)
    /\ origin' = Append(origin, val)
    /\ _cache' = CacheStore(cur[c].cache_key, ref)
    /\ recency' = Touch(cur[c].cache_key)
    /\ held' = [held EXCEPT ![c] = ref]
    /\ pc' = [pc EXCEPT ![c] = "idle"]
    /\ cur' = [cur EXCEPT ![c] = NoCur]
    /\ Complete(CallRec(cur[c].query, cur[c].variables, "fetched", "", ref,
                        val, cur[c].lookup, 1, status, "data", fresh[c]))
    /\ UNCHANGED others
    /\ UNCHANGED <<session, _cache_ttl, now, requests>>

(***************************************************************************)
(* The other operations.                                                   *)
(***************************************************************************)
\* queries.py:351-353  close: the session is closed, self.session is kept.
Close ==
    /\ session = "open"
    /\ session' = "closed"
    /\ UNCHANGED others
    /\ UNCHANGED <<_cache, _cache_ttl, heap, now, pc, cur, held, requests,
                   fresh, recency, origin, last>>

\* A caller edits, in place, the value its last call returned.
Mutate(c) ==
    /\ pc[c] = "idle"
    /\ held[c] # 0
    /\ heap[held[c]].data # "edited"
    /\ heap' = [heap EXCEPT ![held[c]].data = "edited"]
    /\ UNCHANGED others
    /\ UNCHANGED <<session, _cache, _cache_ttl, now, pc, cur, held, requests,
                   fresh, recency, origin, last>>

\* time.time() advances.
Tick ==
    /\ now < MaxTicks * TickStep
    /\ now' = now + TickStep
    /\ UNCHANGED others
    /\ UNCHANGED <<session, _cache, _cache_ttl, heap, pc, cur, held, requests,
                   fresh, recency, origin, last>>

Next ==
    \/ \E c \in Callers, in \in Inputs : QueryHit(c, in[1], in[2])
    \/ \E c \in Callers, in \in Inputs : QueryOnClosed(c, in[1], in[2])
    \/ \E c \in Callers, in \in Inputs : QueryPost(c, in[1], in[2])
    \/ \E c \in Callers : TransportError(c)
    \/ \E c \in Callers, s \in Statuses : RespondNonJson(c, s)
    \/ \E c \in Callers, s \in Statuses, b \in Bodies : RespondErrors(c, s, b)
    \/ \E c \in Callers, s \in Statuses, d \in NetData : RespondData(c, s, d)
    \/ Close
    \/ \E c \in Callers : Mutate(c)
    \/ Tick

Spec == Init /\ [][Next]_vars

(***************************************************************************)
(* graphql_query (graphql.py:73-167).  One call at a time is followed,     *)
(* from its start to its return; the client may be closed by another task  *)
(* while the call is suspended.                                            *)
(***************************************************************************)
GqReady == gq.pc \in {"idle", "done"}

\* What no action of the gateway touches.
GatewayFrame ==
    UNCHANGED <<clientRest, _max_retries, _retry_delay, batchVars, schemaVars,
                workflowVars>>

\* The call returns an envelope.
Return(envelope, status, text) ==
    gq' = [gq EXCEPT !.pc = "done", !.outcome = "returned",
                     !.cause = "response", !.envelope = envelope,
                     !.status = status, !.text = text]

\* An exception leaves the call.
RaiseFrom(call, error, cause) ==
    gq' = [call EXCEPT !.pc = "done", !.outcome = "raised", !.error = error,
                       !.cause = cause]

\* A sleep as long before every attempt: no backoff.
ConstantDelay(attempt) == _retry_delay

\* graphql.py:134, 156  the length of the sleep after the attempt of this
\* index: retry_delay * (2**attempt).
Backoff(attempt) == _retry_delay * (2 ^ attempt)

\* graphql.py:130-135, 155-157  the attempt is given up, its outcome noted,
\* and the call sleeps retry_delay * 2**attempt before the next one.
SleepBeforeRetry(status) ==
    gq' = [gq EXCEPT !.pc = "sleeping",
                     !.prior = Append(@, status),
                     !.sleeps = Append(@, Backoff(gq.attempt))]

\* graphql.py:88-89  the text contains a mutation: ValidationError, before
\* anything else is done.
GqlReject(text) ==
    /\ GqReady
    /\ ContainsMutation(text)
    /\ RaiseFrom([NoGq EXCEPT !.query = text], "ValidationError", "validation")
    /\ UNCHANGED session
    /\ GatewayFrame

\* graphql.py:91-108  the text is accepted, the session ensured and the
\* first request posted.
GqlStart(text) ==
    /\ GqReady
    /\ ~ContainsMutation(text)
    /\ EnsureSession(session) = "open"
    /\ session' = "open"
    /\ gq' = [NoGq EXCEPT !.pc = "awaiting", !.query = text,
                          !.ensured = TRUE, !.requests = 1]
    /\ GatewayFrame

\* graphql.py:91-108, 159-160  the text is accepted but the session is
\* closed: session.post raises RuntimeError, which leaves as NetworkError.
GqlStartOnClosed(text) ==
    /\ GqReady
    /\ ~ContainsMutation(text)
    /\ EnsureSession(session) = "closed"
    /\ RaiseFrom([NoGq EXCEPT !.query = text, !.ensured = TRUE],
                 "NetworkError", "closed")
    /\ UNCHANGED session
    /\ GatewayFrame

\* graphql.py:109-124  a response with response.ok arrives.
GqlRespondOk(status, text) ==
    LET response_payload == TryParsePayload(text) IN
    /\ gq.pc = "awaiting"
    /\ Ok(status)
    /\ IF response_payload.isNone
       THEN Return(NonJsonEnvelope, status, text)
       ELSE Return(WrapQueryResult(response_payload), status, text)
    /\ UNCHANGED session
    /\ GatewayFrame

\* graphql.py:109-151  any other response arrives.
GqlRespondNotOk(status, text) ==
    LET response_payload == TryParsePayload(text) IN
    /\ gq.pc = "awaiting"
    /\ ~Ok(status)
    /\ IF IsRetryableStatus(status) /\ gq.attempt < _max_retries - 1
       THEN SleepBeforeRetry(status)
       ELSE IF /\ ~response_payload.isNone
               /\ (response_payload.errors # "absent"
                      \/ response_payload.data # "absent")
       THEN Return(WrapQueryResult(response_payload), status, text)
       ELSE Return(HttpErrorEnvelope, status, text)
    /\ UNCHANGED session
    /\ GatewayFrame

\* graphql.py:153-158  aiohttp.ClientError or asyncio.TimeoutError.
GqlTransportError ==
    /\ gq.pc = "awaiting"
    /\ IF gq.attempt < _max_retries - 1
       THEN SleepBeforeRetry(0)
       ELSE RaiseFrom(gq, "NetworkError", "transport")
    /\ UNCHANGED session
    /\ GatewayFrame

\* graphql.py:103-108, 159-160  the sleep is over: the next attempt posts
\* its request, or finds the session closed.
GqlNextAttempt ==
    /\ gq.pc = "sleeping"
    /\ IF session = "closed"
       THEN RaiseFrom([gq EXCEPT !.attempt = @ + 1], "NetworkError", "closed")
       ELSE gq' = [gq EXCEPT !.pc = "awaiting", !.attempt = @ + 1,
                             !.requests = @ + 1]
    /\ UNCHANGED session
    /\ GatewayFrame

\* A client with or without retry attributes of its own, no call made yet.
GatewayInit ==
    /\ ClientInit
    /\ _cache_ttl = CACHE_TTL_DEFAULT
    /\ _max_retries \in RetryCounts
    /\ _retry_delay \in RetryDelays
    /\ gq = NoGq
    /\ BatchIdle
    /\ SchemaIdle
    /\ WorkflowIdle

GatewayNext ==
    \/ \E text \in QueryTexts : GqlReject(text)
    \/ \E text \in QueryTexts : GqlStart(text)
    \/ \E text \in QueryTexts : GqlStartOnClosed(text)
    \/ \E s \in GatewayStatuses, text \in ResponseTexts : GqlRespondOk(s, text)
    \/ \E s \in GatewayStatuses, text \in ResponseTexts :
          GqlRespondNotOk(s, text)
    \/ GqlTransportError
    \/ GqlNextAttempt
    \/ Close

GatewaySpec == GatewayInit /\ [][GatewayNext]_vars

(***************************************************************************)
(* graphql_batch_query (graphql.py:169-271).  The graphql_query call of an *)
(* entry is followed from its start to its end only: it returns an         *)
(* envelope of some status, or raises.                                     *)
(***************************************************************************)
\* What no action of the batch runner touches.
BatchFrame ==
    UNCHANGED <<session, clientRest, gatewayVars, schemaVars, workflowVars>>

\* The statuses of the envelopes graphql_query returns.
EnvelopeStatuses == {"success", "warning", "error"}

\* graphql.py:197-209  the arguments are refused.
BatchReject(query_string, variables_list, key_field, max_concurrency) ==
    /\ batch.pc \in {"idle", "done"}
    /\ BatchValidation(Len(variables_list), max_concurrency) # ""
    /\ batch' = [NoBatch EXCEPT
                   !.pc = "done", !.query_string = query_string,
                   !.length = Len(variables_list), !.key_field = key_field,
                   !.max_concurrency = max_concurrency,
                   !.outcome = "raised", !.error = "ValidationError",
                   !.message = BatchValidation(Len(variables_list),
                                               max_concurrency)]
    /\ task' = <<>>
    /\ semaphore' = NewSemaphore(0)
    /\ completed' = <<>>
    /\ BatchFrame

\* graphql.py:211-249  the arguments are accepted: the semaphore is made and
\* gather creates one task per entry.
BatchStart(query_string, variables_list, key_field, max_concurrency) ==
    /\ batch.pc \in {"idle", "done"}
    /\ BatchValidation(Len(variables_list), max_concurrency) = ""
    /\ batch' = [NoBatch EXCEPT
                   !.pc = "running", !.query_string = query_string,
                   !.variables_list = variables_list,
                   !.length = Len(variables_list), !.key_field = key_field,
                   !.max_concurrency = max_concurrency]
    /\ task' = [i \in 1..Len(variables_list) |-> NewTask]
    /\ semaphore' = NewSemaphore(max_concurrency)
    /\ completed' = <<>>
    /\ BatchFrame

\* graphql.py:227-249  the graphql_query call of a task raises: leaving
\* "async with" gives the slot back; the handler turns an exception it
\* catches into an error envelope, and any other exception ends the task and
\* leaves graphql_batch_query through gather.
Raised(i, key, error, sem, call) ==
    /\ semaphore' = Release(sem)
    /\ completed' = Append(completed, i)
    /\ IF ExceptException(error)
       THEN /\ task' = [task EXCEPT ![i] = [pc |-> "done", key |-> key,
                                            status |-> "error",
                                            raised |-> TRUE,
                                            answer |-> error]]
            /\ batch' = call
       ELSE /\ task' = [task EXCEPT ![i] = [pc |-> "done", key |-> key,
                                            status |-> "",
                                            raised |-> TRUE,
                                            answer |-> error]]
            /\ batch' = [call EXCEPT !.pc = "done", !.outcome = "raised",
                                     !.error = error]

\* graphql.py:227-240  the task holds a slot and calls graphql_query.  A text
\* with a mutation makes the call raise at once: the slot is given back and
\* the exception becomes an error envelope.  Any other call suspends.
Invoke(i, sem) ==
    LET key == KeyOf(batch.variables_list[i], batch.key_field)
        call == [batch EXCEPT !.invoked = @ + 1]
    IN
    IF ContainsMutation(batch.query_string)
    THEN Raised(i, key, "ValidationError", sem, call)
    ELSE /\ batch' = call
         /\ task' = [task EXCEPT ![i] = [@ EXCEPT !.pc = "inflight",
                                                  !.key = key]]
         /\ semaphore' = sem
         /\ UNCHANGED completed

\* graphql.py:213-234  a task runs for the first time, the tasks starting in
\* the order gather created them: an entry that is no dict is answered with
\* an error envelope at once; otherwise the task takes a slot and calls
\* graphql_query, or waits for a slot.
TaskStart(i) ==
    /\ batch.pc = "running"
    /\ i \in 1..Len(task)
    /\ task[i].pc = "created"
    /\ \A j \in 1..(i - 1) : task[j].pc # "created"
    /\ IF ~batch.variables_list[i].isDict
       THEN /\ task' = [task EXCEPT ![i] = [pc |-> "done", key |-> "None",
                                            status |-> "error",
                                            raised |-> FALSE,
                                            answer |-> ""]]
            /\ UNCHANGED <<batch, semaphore, completed>>
       ELSE IF Locked(semaphore)
       THEN /\ task' = [task EXCEPT ![i].pc = "waiting"]
            /\ semaphore' = [semaphore EXCEPT !.waiters = Append(@, i)]
            /\ UNCHANGED <<batch, completed>>
       ELSE Invoke(i, [semaphore EXCEPT !.value = @ - 1])
    /\ BatchFrame

\* asyncio.Semaphore.acquire: the longest-waiting task gets the slot that
\* was given back, and calls graphql_query.
TaskAdmit(i) ==
    /\ batch.pc = "running"
    /\ semaphore.waiters # <<>>
    /\ i = Head(semaphore.waiters)
    /\ semaphore.value > 0
    /\ Invoke(i, [semaphore EXCEPT !.value = @ - 1, !.waiters = Tail(@)])
    /\ BatchFrame

\* graphql.py:228-247  the graphql_query call of a task returns an envelope:
\* the slot is given back and the task ends with that envelope.
TaskReturn(i, status) ==
    /\ batch.pc = "running"
    /\ i \in 1..Len(task)
    /\ task[i].pc = "inflight"
    /\ task' = [task EXCEPT ![i] = [@ EXCEPT !.pc = "done",
                                            !.status = status,
                                            !.answer = status]]
    /\ semaphore' = Release(semaphore)
    /\ completed' = Append(completed, i)
    /\ UNCHANGED batch
    /\ BatchFrame

\* graphql.py:235-247  the graphql_query call of a task raises after it
\* suspended.
TaskRaise(i, error) ==
    /\ batch.pc = "running"
    /\ i \in 1..Len(task)
    /\ task[i].pc = "inflight"
    /\ Raised(i, task[i].key, error, semaphore, batch)
    /\ BatchFrame

\* The number of results with a status.
CountStatus(results, status) ==
    Cardinality({i \in 1..Len(results) : results[i].status = status})

\* A variant of the overall status below in which any failed entry makes
\* the batch an error.
OverallStatusAnyFailureIsError(successful, warning, failed) ==
    IF failed > 0 THEN "error"
    ELSE IF warning > 0 THEN "warning"
    ELSE "success"

\* graphql.py:255-260
OverallStatus(successful, warning, failed) ==
    IF failed > 0
    THEN (IF successful > 0 \/ warning > 0 THEN "warning" ELSE "error")
    ELSE IF warning > 0 THEN "warning"
    ELSE "success"

\* graphql.py:241-245  what run_single returns for the entry at position i
\* (index i - 1 of enumerate).
ResultOf(tasks, i) ==
    [index |-> i - 1, key |-> tasks[i].key, status |-> tasks[i].status]

\* A variant of gather below that hands the results over in the order the
\* graphql_query calls ended.
GatherAsCompleted(tasks) ==
    IF Len(completed) = Len(tasks)
    THEN [n \in 1..Len(tasks) |-> ResultOf(tasks, completed[n])]
    ELSE [n \in 1..Len(tasks) |-> ResultOf(tasks, n)]

\* graphql.py:247-249  asyncio.gather: the results of the tasks, in the
\* order the tasks were passed.
Gather(tasks) == [i \in 1..Len(tasks) |-> ResultOf(tasks, i)]

\* graphql.py:247-271  every task has ended: gather returns their results in
\* the order of the entries, and the summary is made.
BatchFinish ==
    LET results == Gather(task)
        successful == CountStatus(results, "success")
        warning    == CountStatus(results, "warning")
        failed     == CountStatus(results, "error")
    IN
    /\ batch.pc = "running"
    /\ \A i \in 1..Len(task) : task[i].pc = "done"
    /\ batch' = [batch EXCEPT
                   !.pc = "done", !.outcome = "returned",
                   !.status = OverallStatus(successful, warning, failed),
                   !.summary = [total |-> Len(results),
                                successful |-> successful,
                                warning |-> warning, failed |-> failed],
                   !.results = results]
    /\ UNCHANGED <<task, semaphore, completed>>
    /\ BatchFrame

BatchInit ==
    /\ ClientInit
    /\ _cache_ttl = CACHE_TTL_DEFAULT
    /\ GatewayIdle
    /\ BatchIdle
    /\ SchemaIdle
    /\ WorkflowIdle

BatchNext ==
    \/ \E q \in BatchTexts, l \in VariablesLists, k \in KeyFields,
          m \in Concurrencies : BatchReject(q, l, k, m)
    \/ \E q \in BatchTexts, l \in VariablesLists, k \in KeyFields,
          m \in Concurrencies : BatchStart(q, l, k, m)
    \/ \E i \in Indices : TaskStart(i)
    \/ \E i \in Indices : TaskAdmit(i)
    \/ \E i \in Indices, status \in EnvelopeStatuses : TaskReturn(i, status)
    \/ \E i \in Indices, error \in GatewayErrors : TaskRaise(i, error)
    \/ BatchFinish

BatchSpec == BatchInit /\ [][BatchNext]_vars

\* The batch runner under the scheduling of asyncio and the premise that
\* every graphql_query call ends.  The event loop runs every task that is
\* ready: a task that was created starts, the longest-waiting task is woken
\* when a slot is free, and gather returns once every task has ended.  The
\* graphql_query call of each task returns or raises.
TaskEnds(i) ==
    \/ \E status \in EnvelopeStatuses : TaskReturn(i, status)
    \/ \E error \in GatewayErrors : TaskRaise(i, error)

BatchFairSpec ==
    /\ BatchInit
    /\ [][BatchNext]_vars
    /\ WF_vars(\E i \in Indices : TaskStart(i))
    /\ WF_vars(\E i \in Indices : TaskAdmit(i))
    /\ \A i \in Indices : WF_vars(TaskEnds(i))
    /\ WF_vars(BatchFinish)

(***************************************************************************)
(* graphql_schema (graphql.py:43-71).  client._query is followed from its  *)
(* call to its end only: it returns an introspection result, from which    *)
(* the schema is built or not, or it raises.                               *)
(***************************************************************************)
\* What no action of the schema tool touches.
SchemaFrame ==
    UNCHANGED <<session, clientRest, gatewayVars, batchVars, workflowVars>>

\* A variant of the test below that takes an entry of any age.
SchemaFreshAnyAge(url, current_time) == url \in DOMAIN _schema_cache

\* graphql.py:51-55  the cache has an entry for the url that is younger than
\* the TTL at the time the call read on entry.
SchemaFresh(url, current_time) ==
    /\ url \in DOMAIN _schema_cache
    /\ current_time - _schema_cache[url].timestamp < _SCHEMA_CACHE_TTL

\* graphql.py:50-58  the call holds the lock: it returns the fresh entry and
\* lets the lock go, or issues the introspection query and suspends.
Enter(c, call, lock) ==
    IF SchemaFresh(call.url, call.current_time)
    THEN /\ sc' = [sc EXCEPT ![c] =
                     [call EXCEPT !.pc = "done", !.outcome = "returned",
                                  !.schema = _schema_cache[call.url].schema,
                                  !.stamp = _schema_cache[call.url].timestamp,
                                  !.returnedAt = now]]
         /\ _schema_lock' = LockRelease(lock)
         /\ UNCHANGED introspections
    ELSE /\ introspections < MaxIntrospections
         /\ sc' = [sc EXCEPT ![c] =
                     [call EXCEPT !.pc = "introspecting", !.issued = TRUE,
                                  !.serial = introspections + 1]]
         /\ _schema_lock' = [lock EXCEPT !.holder = c]
         /\ introspections' = introspections + 1

\* graphql.py:48-58  a call is made: the clock is read, then the lock is
\* taken, or waited for.
SchemaCall(c, url) ==
    LET call == [NoSc EXCEPT !.url = url, !.current_time = now]
        h    == _schema_lock.holder
    IN
    /\ sc[c].pc \in {"idle", "done"}
    /\ IF LockLocked(_schema_lock)
       THEN /\ sc' = [sc EXCEPT ![c] =
                        [call EXCEPT
                           !.pc = "waiting",
                           !.waitedOn = IF h # "" THEN sc[h].serial ELSE 0,
                           !.behindSame = (h # "" /\ sc[h].url = url)]]
            /\ _schema_lock' =
                  [_schema_lock EXCEPT !.waiters = Append(@, c)]
            /\ UNCHANGED introspections
       ELSE Enter(c, call, _schema_lock)
    /\ UNCHANGED _schema_cache
    /\ SchemaFrame

\* asyncio.Lock.acquire: the lock was let go and the longest-waiting call
\* takes it.
SchemaAdmit(c) ==
    /\ sc[c].pc = "waiting"
    /\ _schema_lock.holder = ""
    /\ _schema_lock.waiters # <<>>
    /\ c = Head(_schema_lock.waiters)
    /\ Enter(c, sc[c], [_schema_lock EXCEPT !.waiters = Tail(@)])
    /\ UNCHANGED _schema_cache
    /\ SchemaFrame

\* graphql.py:58-71  client._query returns and the schema is built: it is
\* stored under the url with the time read on entry, and returned.
IntrospectionDone(c) ==
    LET schema_sdl == Schema(sc[c].url, sc[c].serial, now) IN
    /\ sc[c].pc = "introspecting"
    /\ _schema_cache' =
          [u \in DOMAIN _schema_cache \cup {sc[c].url} |->
              IF u = sc[c].url
              THEN [schema |-> schema_sdl, timestamp |-> sc[c].current_time]
              ELSE _schema_cache[u]]
    /\ sc' = [sc EXCEPT ![c] =
                [@ EXCEPT !.pc = "done", !.outcome = "returned",
                          !.schema = schema_sdl,
                          !.stamp = sc[c].current_time,
                          !.returnedAt = now]]
    /\ _schema_lock' = LockRelease(_schema_lock)
    /\ UNCHANGED introspections
    /\ SchemaFrame

\* graphql.py:58-65  client._query raises, or the schema cannot be built from
\* what it returned (ValidationError): nothing is stored, the lock is let go.
IntrospectionFails(c, error) ==
    /\ sc[c].pc = "introspecting"
    /\ sc' = [sc EXCEPT ![c] =
                [@ EXCEPT !.pc = "done", !.outcome = "raised",
                          !.error = error, !.returnedAt = now]]
    /\ _schema_lock' = LockRelease(_schema_lock)
    /\ UNCHANGED <<_schema_cache, introspections>>
    /\ SchemaFrame

\* time.time() advances while every call is idle, done or suspended: a call
\* that the lock was handed to runs before any time passes.
SchemaTick ==
    /\ ~(_schema_lock.holder = "" /\ _schema_lock.waiters # <<>>)
    /\ Tick

SchemaInit ==
    /\ ClientInit
    /\ _cache_ttl = CACHE_TTL_DEFAULT
    /\ GatewayIdle
    /\ BatchIdle
    /\ SchemaIdle
    /\ WorkflowIdle

SchemaNext ==
    \/ \E c \in Callers, url \in Urls : SchemaCall(c, url)
    \/ \E c \in Callers : SchemaAdmit(c)
    \/ \E c \in Callers : IntrospectionDone(c)
    \/ \E c \in Callers, error \in {"Exception", "ValidationError"} :
          IntrospectionFails(c, error)
    \/ SchemaTick

SchemaSpec == SchemaInit /\ [][SchemaNext]_vars

(***************************************************************************)
(* The claims.  `last` changes exactly when a call completes with a record *)
(* that differs from the one before it; a call answered from the network   *)
(* always differs, for it returns a new object.                            *)
(***************************************************************************)
(* get_drug_repurposing_candidates (workflows.py:54-291).  The calls of    *)
(* the domain APIs (map_ids, get_disease_associated_targets,               *)
(* get_target_known_drugs) are followed from their start to their end      *)
(* only: each returns an answer or raises.                                 *)
(***************************************************************************)
\* What no action of the workflow touches.
WorkflowFrame ==
    UNCHANGED <<session, clientRest, gatewayVars, batchVars, schemaVars,
                history>>

\* The call after task i has ended.
Ended(call, i) ==
    IF history THEN [call EXCEPT !.completed = Append(@, i)] ELSE call

\* The exceptions a domain API call ends in.
LookupErrors == {"NetworkError", "RuntimeError"}

\* The call ends in an exception.
WorkflowRaises(call, error, message) ==
    workflow' = [call EXCEPT !.pc = "done", !.outcome = "raised",
                             !.error = error, !.message = message]

\* workflows.py:87-115  the arguments are refused.
WorkflowReject(efo_id, a) ==
    /\ workflow.pc \in {"idle", "done"}
    /\ WorkflowValidation(a) # ""
    /\ WorkflowRaises([NoWorkflow EXCEPT !.efo_id = efo_id, !.arguments = a],
                      "ValidationError", WorkflowValidation(a))
    /\ fetch' = <<>>
    /\ fetch_semaphore' = NewSemaphore(0)
    /\ WorkflowFrame

\* workflows.py:87-124  the arguments are accepted: an efo_id that needs a
\* lookup is passed to map_ids; any other is the resolved identifier, and
\* get_disease_associated_targets is called with it.
WorkflowStart(efo_id, a) ==
    /\ workflow.pc \in {"idle", "done"}
    /\ WorkflowValidation(a) = ""
    /\ workflow' =
         IF NeedsLookup(efo_id)
         THEN [NoWorkflow EXCEPT !.pc = "resolving", !.efo_id = efo_id,
                                 !.arguments = a, !.queries = 1,
                                 !.map_ids = 1]
         ELSE [NoWorkflow EXCEPT !.pc = "associations", !.efo_id = efo_id,
                                 !.arguments = a, !.queries = 1,
                                 !.resolved_efo_id = efo_id]
    /\ fetch' = <<>>
    /\ fetch_semaphore' = NewSemaphore(0)
    /\ WorkflowFrame

\* workflows.py:33-52, 117-124  map_ids returns: the best hit's id is the
\* resolved identifier and get_disease_associated_targets is called with
\* it, or ValidationError is raised.
MapIdsReturns(mapping) ==
    /\ workflow.pc = "resolving"
    /\ IF BestId(mapping) = ""
       THEN WorkflowRaises([workflow EXCEPT !.mapping = <<mapping>>],
                           "ValidationError",
                           "Unable to resolve disease identifier")
       ELSE workflow' = [workflow EXCEPT !.pc = "associations",
                                         !.queries = @ + 1,
                                         !.mapping = <<mapping>>,
                                         !.resolved_efo_id = BestId(mapping)]
    /\ UNCHANGED <<fetch, fetch_semaphore>>
    /\ WorkflowFrame

\* workflows.py:33, 117  map_ids raises: the exception leaves the call.
MapIdsRaises(error) ==
    /\ workflow.pc = "resolving"
    /\ WorkflowRaises(workflow, error, "")
    /\ UNCHANGED <<fetch, fetch_semaphore>>
    /\ WorkflowFrame

\* workflows.py:119-130  get_disease_associated_targets returns no disease.
DiseaseNotFound ==
    /\ workflow.pc = "associations"
    /\ WorkflowRaises(workflow, "ValidationError", "Disease not found")
    /\ UNCHANGED <<fetch, fetch_semaphore>>
    /\ WorkflowFrame

\* workflows.py:119  get_disease_associated_targets raises.
AssociationsRaise(error) ==
    /\ workflow.pc = "associations"
    /\ WorkflowRaises(workflow, error, "")
    /\ UNCHANGED <<fetch, fetch_semaphore>>
    /\ WorkflowFrame

\* workflows.py:119-175  get_disease_associated_targets returns the disease
\* with its rows: the targets are selected, the semaphore is made and
\* gather creates one task per selected target.
AssociationsReturn(rows) ==
    LET selected == SelectedTargets(rows, workflow.arguments) IN
    /\ workflow.pc = "associations"
    /\ workflow' = [workflow EXCEPT !.pc = "lookups",
                                    !.all_target_rows = rows,
                                    !.selected_targets = selected]
    /\ fetch' = [i \in 1..Len(selected) |-> NewFetch]
    /\ fetch_semaphore' = NewSemaphore(workflow.arguments.max_concurrency)
    /\ WorkflowFrame

\* workflows.py:158-163  the task holds a slot and calls
\* get_target_known_drugs.
Fetch(i, sem) ==
    /\ workflow' = [workflow EXCEPT !.queries = @ + 1]
    /\ fetch' = [fetch EXCEPT ![i].pc = "inflight"]
    /\ fetch_semaphore' = sem

\* workflows.py:157-158  a task runs for the first time, the tasks starting
\* in the order gather created them: it takes a slot and calls
\* get_target_known_drugs, or waits for a slot.
FetchStart(i) ==
    /\ workflow.pc = "lookups"
    /\ i \in 1..Len(fetch)
    /\ fetch[i].pc = "created"
    /\ \A j \in 1..(i - 1) : fetch[j].pc # "created"
    /\ IF Locked(fetch_semaphore)
       THEN /\ fetch' = [fetch EXCEPT ![i].pc = "waiting"]
            /\ fetch_semaphore' =
                 [fetch_semaphore EXCEPT !.waiters = Append(@, i)]
            /\ UNCHANGED workflow
       ELSE Fetch(i, [fetch_semaphore EXCEPT !.value = @ - 1])
    /\ WorkflowFrame

\* asyncio.Semaphore.acquire: the longest-waiting task gets the slot that
\* was given back, and calls get_target_known_drugs.
FetchAdmit(i) ==
    /\ workflow.pc = "lookups"
    /\ fetch_semaphore.waiters # <<>>
    /\ i = Head(fetch_semaphore.waiters)
    /\ fetch_semaphore.value > 0
    /\ Fetch(i, [fetch_semaphore EXCEPT !.value = @ - 1,
                                        !.waiters = Tail(@)])
    /\ WorkflowFrame

\* workflows.py:172-175  a task ends in an exception: gather keeps it as the
\* task's result, or raises it out of the call.
FetchFails(i, error) ==
    /\ fetch' = [fetch EXCEPT ![i] = [pc |-> "done", raised |-> TRUE,
                                      error |-> error,
                                      known_drugs |-> <<>>]]
    /\ IF return_exceptions
       THEN workflow' = Ended(workflow, i)
       ELSE WorkflowRaises(Ended(workflow, i), error, "")

\* workflows.py:158-170  get_target_known_drugs returns: the slot is given
\* back and the task returns the rows; reading the rows of a knownDrugs that
\* is null raises AttributeError.
FetchReturn(i, payload) ==
    /\ workflow.pc = "lookups"
    /\ i \in 1..Len(fetch)
    /\ fetch[i].pc = "inflight"
    /\ fetch_semaphore' = Release(fetch_semaphore)
    /\ IF payload.knownDrugs
       THEN /\ fetch' = [fetch EXCEPT ![i] = [pc |-> "done",
                                              raised |-> FALSE,
                                              error |-> "",
                                              known_drugs |-> payload.rows]]
            /\ workflow' = Ended(workflow, i)
       ELSE FetchFails(i, "AttributeError")
    /\ WorkflowFrame

\* workflows.py:158-163  get_target_known_drugs raises: the slot is given
\* back and the task ends in the exception.
FetchRaise(i, error) ==
    /\ workflow.pc = "lookups"
    /\ i \in 1..Len(fetch)
    /\ fetch[i].pc = "inflight"
    /\ fetch_semaphore' = Release(fetch_semaphore)
    /\ FetchFails(i, error)
    /\ WorkflowFrame

\* A variant of target_drug_sets below that takes the results in the order
\* the tasks ended.
RECURSIVE TargetDrugSetsAsCompleted(_, _, _)
TargetDrugSetsAsCompleted(tasks, selected, n) ==
    IF n > Len(workflow.completed) THEN <<>>
    ELSE (IF tasks[workflow.completed[n]].raised THEN <<>>
          ELSE <<[target |-> selected[workflow.completed[n]],
                  known_drugs |->
                      tasks[workflow.completed[n]].known_drugs]>>)
         \o TargetDrugSetsAsCompleted(tasks, selected, n + 1)

\* workflows.py:172-181  target_drug_sets: gather hands the results over in
\* the order of the targets; those that are no exceptions are kept.
RECURSIVE TargetDrugSets(_, _, _)
TargetDrugSets(tasks, selected, n) ==
    IF n > Len(tasks) THEN <<>>
    ELSE (IF tasks[n].raised THEN <<>>
          ELSE <<[target |-> selected[n],
                  known_drugs |-> tasks[n].known_drugs]>>)
         \o TargetDrugSets(tasks, selected, n + 1)

\* workflows.py:176-178  targets_failed_drug_lookup
FailedLookups(tasks) ==
    Cardinality({ n \in 1..Len(tasks) : tasks[n].raised })

\* workflows.py:172-291  every task has ended: the rows are merged, the
\* candidates ranked and truncated, and the summary is made.
WorkflowFinish ==
    LET a == workflow.arguments
        target_drug_sets ==
            TargetDrugSets(fetch, workflow.selected_targets, 1)
        visited == Visited(target_drug_sets, a)
        candidates == Ranked(Merged(visited, Len(visited), a), a)
    IN
    /\ workflow.pc = "lookups"
    /\ \A i \in 1..Len(fetch) : fetch[i].pc = "done"
    /\ workflow' =
         [workflow EXCEPT
            !.pc = "done", !.outcome = "returned",
            !.summary =
               [targetsEvaluated |-> Len(workflow.all_target_rows),
                targetsPassedScoreFilter |-> Len(workflow.selected_targets),
                targetsWithKnownDrugs |->
                    Cardinality({ n \in 1..Len(target_drug_sets) :
                        target_drug_sets[n].known_drugs # <<>> }),
                targetsFailedDrugLookup |-> FailedLookups(fetch),
                uniqueDrugCandidates |-> Len(candidates)],
            !.targets = workflow.selected_targets,
            !.candidates = candidates]
    /\ UNCHANGED <<fetch, fetch_semaphore>>
    /\ WorkflowFrame

WorkflowInit ==
    /\ ClientInit
    /\ _cache_ttl = CACHE_TTL_DEFAULT
    /\ GatewayIdle
    /\ BatchIdle
    /\ SchemaIdle
    /\ WorkflowIdle

WorkflowNext ==
    \/ \E efo_id \in EfoIds, a \in Arguments : WorkflowReject(efo_id, a)
    \/ \E efo_id \in EfoIds, a \in Arguments : WorkflowStart(efo_id, a)
    \/ \E mapping \in MapIdsResponses : MapIdsReturns(mapping)
    \/ \E error \in LookupErrors : MapIdsRaises(error)
    \/ DiseaseNotFound
    \/ \E error \in LookupErrors : AssociationsRaise(error)
    \/ \E rows \in AssociatedTargets : AssociationsReturn(rows)
    \/ \E i \in Targets : FetchStart(i)
    \/ \E i \in Targets : FetchAdmit(i)
    \/ \E i \in Targets, payload \in KnownDrugsResponses :
          FetchReturn(i, payload)
    \/ \E i \in Targets, error \in LookupErrors : FetchRaise(i, error)
    \/ WorkflowFinish

WorkflowSpec == WorkflowInit /\ [][WorkflowNext]_vars

\* The workflow with the order in which its lookups end kept.
WorkflowOrderInit ==
    /\ ClientInit
    /\ _cache_ttl = CACHE_TTL_DEFAULT
    /\ GatewayIdle
    /\ BatchIdle
    /\ SchemaIdle
    /\ workflow = NoWorkflow
    /\ fetch = <<>>
    /\ fetch_semaphore = NewSemaphore(0)
    /\ history = TRUE

WorkflowOrderSpec == WorkflowOrderInit /\ [][WorkflowNext]_vars

(***************************************************************************)
Succeeded(rec) == rec.outcome \in {"hit", "fetched"}

CallCompletes == last' # last

\* C1: with TTL > 0, of two consecutive successful _query calls with the same
\* (query, variables) pair, the second one (whose lookup did not find the
\* entry expired) issues no network request, is answered from the cache, and
\* returns a value equal to the one the first call returned.
C1_SecondCallFromCache ==
    [][ ( /\ CallCompletes
          /\ _cache_ttl > 0
          /\ Succeeded(last) /\ Succeeded(last')
          /\ last'.query = last.query
          /\ last'.variables = last.variables
          /\ last'.seq
          /\ last'.lookup # "expired" )
        => ( /\ last'.outcome = "hit"
             /\ last'.requests = 0
             /\ last'.val = last.val ) ]_vars

\* C2: every value _query returns is the value the network delivered for it,
\* whatever in-place edits callers made to values returned earlier.
C2_ReturnedValueIsNetworkValue ==
    Succeeded(last) => last.val = origin[last.ref]

\* C3: the cache never holds more than cache_max_entries entries.
C3_CacheBounded ==
    Cardinality(DOMAIN _cache) <= cache_max_entries

\* C4: a store of a new key into a cache that holds cache_max_entries entries
\* evicts exactly one entry, the least recently read or written one, and
\* keeps the new one.
C4_EvictsLeastRecentlyUsed ==
    [][ ( /\ Cardinality(DOMAIN _cache) = cache_max_entries
          /\ DOMAIN _cache' \ DOMAIN _cache # {} )
        => ( DOMAIN _cache' =
               (DOMAIN _cache \ {Head(recency)})
                  \cup (DOMAIN _cache' \ DOMAIN _cache) ) ]_vars

\* C5: a lookup never returns an entry whose age has reached the TTL, and the
\* lookup that finds an entry expired deletes it from the cache (stated for
\* TTL > 0; C6 is about TTL = 0).
C5_ExpiredNeverReturnedAndPurged ==
    [][ /\ (CallCompletes /\ last'.outcome = "hit") => last'.lookup = "live"
        /\ \A c \in Callers :
              ( /\ _cache_ttl > 0
                /\ pc[c] = "idle" /\ pc'[c] = "awaiting"
                /\ cur'[c].lookup = "expired" )
              => cur'[c].cache_key \notin DOMAIN _cache' ]_vars

C7_KeyIgnoresInsertionOrder ==
    [][ \A c \in Callers :
          (pc[c] = "idle" /\ pc'[c] = "awaiting")
          => ~ \E in \in Inputs :
                 /\ in[1] = cur'[c].query
                 /\ AsMapping(in[2]) = AsMapping(cur'[c].variables)
                 /\ CacheHit(CacheKey(in[1], in[2])) ]_vars

\* C8: the client never holds a closed session (close leaves it with none),
\* and no call posts on a closed session.
C8_ClosedSessionNeverUsed ==
    /\ session # "closed"
    /\ last.error # "RuntimeError"

\* C9: a 2xx response whose JSON object carries both "errors" and non-null
\* "data" makes _query return, not raise.
C9_PartialDataReturned ==
    (last.status = 200 /\ last.body = "partial") => Succeeded(last)

\* C10: a call does not end on a status >= 500 while attempts of its
\* max_retries remain (it retries), and a call answered with status 400 ends
\* after exactly one request with a NetworkError.
C10_RetriesExactlyRetryable ==
    /\ last.status = 500 => last.requests = max_retries
    /\ last.status = 400 =>
         ( /\ last.outcome = "raised"
           /\ last.error = "NetworkError"
           /\ last.requests = 1 )

\* C11: every _query call that fails fails with a NetworkError.
C11_FailuresAreNetworkErrors ==
    last.outcome = "raised" => last.error = "NetworkError"

(***************************************************************************)
(* The claims about graphql_query, over the record of the call.            *)
(***************************************************************************)
\* The call ended on the outcome of an attempt it made.
EndedOnResponse == gq.pc = "done" /\ gq.cause = "response"

\* An outcome of an attempt that is worth another attempt: a transport
\* failure (0), a status >= 500, or 429.
TransientOutcome(status) == status = 0 \/ status >= 500 \/ status = 429

\* C12: a call does not end on a transient outcome (status >= 500, 429, a
\* transport failure) while attempts of its max_retries remain; and a call
\* whose first k attempts had transient outcomes and whose attempt k+1 got a
\* 2xx response with a JSON object returns the envelope of that response
\* after exactly k+1 requests, k < max_retries.
C12_RetriesThenSucceeds ==
    /\ ( /\ gq.pc = "done"
         /\ gq.cause \in {"response", "transport"}
         /\ TransientOutcome(gq.status) )
       => gq.requests = _max_retries
    /\ ( /\ EndedOnResponse
         /\ Ok(gq.status)
         /\ gq.text.kind = "object"
         /\ \A i \in 1..Len(gq.prior) : TransientOutcome(gq.prior[i]) )
       => ( /\ gq.outcome = "returned"
            /\ gq.envelope = WrapQueryResult(TryParsePayload(gq.text))
            /\ gq.requests = Len(gq.prior) + 1
            /\ Len(gq.prior) < _max_retries )

\* C12's case: two transient outcomes, one of them a 429, then a 2xx response
\* with data, returned as a success after three requests.
C12_Witness ==
    /\ EndedOnResponse
    /\ gq.prior = <<429, 0>>
    /\ Ok(gq.status)
    /\ gq.envelope.status = "success"
    /\ gq.envelope.result = "d1"
    /\ gq.requests = 3

\* A non-2xx status that is neither >= 500 nor 429.
ClientErrorStatus(status) ==
    status # 0 /\ ~Ok(status) /\ ~(status >= 500) /\ status # 429

\* The response the call ended on has such a status and a JSON object with a
\* non-empty "errors" list as its body.
EndedOnJsonErrorBody ==
    /\ EndedOnResponse
    /\ ClientErrorStatus(gq.status)
    /\ gq.text.kind = "object"
    /\ gq.text.errors = "some"

\* No attempt that got such a status was followed by another attempt.
ClientErrorNeverRetried ==
    \A i \in 1..Len(gq.prior) : ~ClientErrorStatus(gq.prior[i])

\* C13, as stated: a response with a non-2xx status that is neither >= 500
\* nor 429 and a JSON error body is never retried, and the call returns an
\* envelope with status error.
C13_ClientErrorIsErrorEnvelope ==
    /\ ClientErrorNeverRetried
    /\ EndedOnJsonErrorBody
       => ( /\ gq.outcome = "returned"
            /\ gq.requests = Len(gq.prior) + 1
            /\ gq.envelope.status = "error" )

\* C13, amended: such a response is never retried, and the call returns the
\* envelope of its body: status error when the body has no usable data,
\* warning when it has, with the body's error list as the message.
C13_ClientErrorIsWrapped ==
    /\ ClientErrorNeverRetried
    /\ EndedOnJsonErrorBody
       => ( /\ gq.outcome = "returned"
            /\ gq.requests = Len(gq.prior) + 1
            /\ gq.envelope.status =
                 (IF gq.text.data = "d1" THEN "warning" ELSE "error")
            /\ gq.envelope.message = "some" )

\* C13's case: a first response with status 400, errors and data, returned
\* after one request.
C13_Witness ==
    /\ EndedOnJsonErrorBody
    /\ gq.status = 400
    /\ gq.text.data = "d1"
    /\ gq.requests = 1
    /\ gq.outcome = "returned"

\* C14: every call with a text that passes the mutation check returns an
\* envelope, whatever happens: none ends in a raised exception.
C14_EveryOutcomeIsAnEnvelope ==
    (gq.pc = "done" /\ gq.cause # "validation")
    => ( /\ gq.outcome = "returned"
         /\ gq.envelope.status \in {"success", "warning", "error"} )

\* The envelope was made from the JSON object of the response: a 2xx
\* response, or another one whose object has an "errors" or "data" member.
EndedOnWrappedPayload ==
    /\ EndedOnResponse
    /\ gq.text.kind = "object"
    /\ (Ok(gq.status) \/ gq.text.errors # "absent" \/ gq.text.data # "absent")

PayloadHasErrors == gq.text.errors = "some"

PayloadHasUsableData == gq.text.data = "d1"

RootIsMutation(text) ==
    \E i \in 1..Len(text) :
        /\ text[i] = "mutation"
        /\ \A j \in 1..(i - 1) : text[j] \in {"#c", "#mutation"}

\* C16: a call whose text has a mutation as its root operation, comment
\* lines before it or not, ends in a ValidationError with no session ensured
\* and no request posted.
C16_MutationRejectedFirst ==
    (gq.pc # "idle" /\ RootIsMutation(gq.query))
    => ( /\ gq.pc = "done"
         /\ gq.outcome = "raised"
         /\ gq.error = "ValidationError"
         /\ ~gq.ensured
         /\ gq.requests = 0 )

\* C16's case: a mutation under a comment line, rejected by a client that
\* still has no session.
C16_Witness ==
    /\ gq.pc = "done"
    /\ gq.query = <<"#c", "mutation">>
    /\ gq.error = "ValidationError"
    /\ session = "none"

(***************************************************************************)
(* The claims about graphql_batch_query.                                   *)
(***************************************************************************)
\* The arguments of the call break a limit: an empty list, a list of more
\* than MAX_GRAPHQL_BATCH_ITEMS entries, a max_concurrency below 1 or above
\* MAX_GRAPHQL_BATCH_CONCURRENCY.
BreaksBatchLimits ==
    \/ batch.length = 0
    \/ batch.length > MAX_GRAPHQL_BATCH_ITEMS
    \/ batch.max_concurrency < 1
    \/ batch.max_concurrency > MAX_GRAPHQL_BATCH_CONCURRENCY

\* C19: a call whose arguments break a limit ends in a ValidationError with
\* no task created and no graphql_query invocation begun.
C19_BatchLimitsValidatedFirst ==
    (batch.pc # "idle" /\ BreaksBatchLimits)
    => ( /\ batch.pc = "done"
         /\ batch.outcome = "raised"
         /\ batch.error = "ValidationError"
         /\ batch.invoked = 0
         /\ task = <<>> )

\* C19's case: a list of three entries with max_concurrency = 0, refused.
C19_Witness ==
    /\ batch.pc = "done"
    /\ batch.length = 3
    /\ batch.max_concurrency = 0
    /\ batch.error = "ValidationError"
    /\ batch.invoked = 0

\* The graphql_query invocations of the batch that have begun and not ended.
InFlight == Cardinality({ i \in 1..Len(task) : task[i].pc = "inflight" })

\* C20: while a batch runs, at most max_concurrency of its graphql_query
\* invocations are in flight.
C20_InFlightBounded ==
    batch.pc = "running" => InFlight <= batch.max_concurrency

\* C20's case: more entries than slots, every slot taken and a task waiting.
C20_Witness ==
    /\ batch.pc = "running"
    /\ batch.max_concurrency = 2
    /\ InFlight = 2
    /\ \E i \in 1..Len(task) : task[i].pc = "waiting"

\* What run_single records for an entry whose graphql_query call ended in
\* answer: an exception or an error envelope is an error, any other
\* envelope keeps its status.
Recorded(answer) ==
    IF answer \in GatewayErrors \/ answer = "error" THEN "error" ELSE answer

\* An entry failed in this step: its task ends with an error.
FailsInStep(i) ==
    /\ batch.pc = "running"
    /\ i \in 1..Len(task)
    /\ task[i].pc # "done"
    /\ task'[i].pc = "done"
    /\ task'[i].answer \in GatewayErrors \cup {"error", ""}

\* C21: in graphql_batch_query the failure of an entry (an error envelope or
\* an exception of graphql_query) is recorded as that entry's error envelope
\* and never aborts the batch: a call whose arguments were accepted never
\* ends in an exception, the step in which an entry fails leaves the batch
\* running and every other task as it was, and every entry's returned status
\* follows from how its own graphql_query call ended.
C21_ItemFailuresAreIsolated ==
    [][ /\ \A i \in Indices :
             FailsInStep(i)
             => ( /\ batch'.pc = "running"
                  /\ task'[i].status = "error"
                  /\ \A j \in (1..Len(task)) \ {i} : task'[j] = task[j] )
        /\ (batch.pc = "running" /\ batch'.pc = "done")
             => ( /\ batch'.outcome = "returned"
                  /\ Len(batch'.results) = Len(task)
                  /\ \A i \in 1..Len(task) :
                        batch'.results[i].status =
                            IF batch.variables_list[i].isDict
                            THEN Recorded(task[i].answer)
                            ELSE "error" )
      ]_vars

\* C21's case: a batch of three entries returned, one call having raised
\* NetworkError, one having returned an error envelope and one a success.
C21_Witness ==
    /\ batch.outcome = "returned"
    /\ \E i, j, k \in 1..Len(task) :
          /\ task[i].answer = "NetworkError"
          /\ task[j].answer = "error"
          /\ task[k].answer = "success"
          /\ batch.results[i].status = "error"
          /\ batch.results[j].status = "error"
          /\ batch.results[k].status = "success"

\* The number of entries of the returned results with a status.
Returned(status) ==
    Cardinality({ i \in 1..Len(batch.results) :
                     batch.results[i].status = status })

\* C22: in the value graphql_batch_query returns, summary.total is the
\* number of variable sets and equals successful + warning + failed, each
\* the number of results of that status; the overall status is error
\* exactly when every entry failed, warning when an entry failed while
\* another did not or when an entry has status warning, success otherwise.
C22_SummaryCountsAndStatus ==
    batch.outcome = "returned"
    => LET sm == batch.summary IN
       /\ sm.total = Len(batch.variables_list)
       /\ sm.total = sm.successful + sm.warning + sm.failed
       /\ sm.successful = Returned("success")
       /\ sm.warning = Returned("warning")
       /\ sm.failed = Returned("error")
       /\ batch.status =
            IF sm.failed = sm.total THEN "error"
            ELSE IF sm.failed > 0 \/ sm.warning > 0 THEN "warning"
            ELSE "success"

\* C22's case: two successes and one failure give {3, 2, 0, 1} and warning.
C22_Witness ==
    /\ batch.outcome = "returned"
    /\ batch.summary = [total |-> 3, successful |-> 2, warning |-> 0,
                        failed |-> 1]
    /\ batch.status = "warning"

WaitedBehindSame(d) == sc[d].waitedOn # 0 /\ sc[d].behindSame

\* C17, as stated: a call that arrives while an introspection for its url is
\* in flight issues no introspection query of its own.
C17_LaterCallersNeverIntrospect ==
    \A d \in Callers : WaitedBehindSame(d) => ~sc[d].issued

\* C17, amended: no two introspection queries are ever in flight at once;
\* and a call that waited behind an introspection for its url which ended in
\* a stored schema, and that was made less than the TTL after the call that
\* stored it, returns that schema and issues no introspection query.
C17_OneIntrospectionWhenFirstSucceeds ==
    \A c, d \in Callers :
        c # d =>
          /\ ~(sc[c].pc = "introspecting" /\ sc[d].pc = "introspecting")
          /\ ( /\ sc[d].pc = "done"
               /\ WaitedBehindSame(d)
               /\ sc[c].pc = "done"
               /\ sc[c].outcome = "returned"
               /\ sc[c].serial = sc[d].waitedOn
               /\ sc[d].current_time - sc[c].current_time < _SCHEMA_CACHE_TTL )
             => ( /\ sc[d].outcome = "returned"
                  /\ sc[d].schema = sc[c].schema
                  /\ ~sc[d].issued )

\* C17's case: a call issued the introspection and stored its schema; another
\* one for the same url waited behind it and returned that schema without a
\* query of its own.
C17_Witness ==
    \E c, d \in Callers :
        /\ c # d
        /\ sc[c].pc = "done" /\ sc[c].issued /\ sc[c].outcome = "returned"
        /\ sc[d].pc = "done" /\ WaitedBehindSame(d)
        /\ sc[d].waitedOn = sc[c].serial
        /\ sc[d].schema = sc[c].schema
        /\ ~sc[d].issued

\* C18, as stated: a call returns a schema introspected from its own url
\* only, and a schema from the cache only while its age, the time since the
\* endpoint answered the introspection, is below the TTL.
C18_KeyedByUrlWithinTtl ==
    \A c \in Callers :
        (sc[c].pc = "done" /\ sc[c].outcome = "returned")
        => ( /\ sc[c].schema.from = sc[c].url
             /\ ~sc[c].issued
                => sc[c].returnedAt - sc[c].schema.at < _SCHEMA_CACHE_TTL )

\* C18, amended: a call returns a schema introspected from its own url only,
\* and a schema from the cache only if, when the call was made, less than
\* the TTL had passed since the entry's timestamp, which is no later than
\* the time the endpoint answered; the call may return it after a wait for
\* the lock, when the schema is older than that.
C18_KeyedByUrlFreshAtEntry ==
    \A c \in Callers :
        (sc[c].pc = "done" /\ sc[c].outcome = "returned")
        => ( /\ sc[c].schema.from = sc[c].url
             /\ ~sc[c].issued
                => ( /\ sc[c].current_time < sc[c].stamp + _SCHEMA_CACHE_TTL
                     /\ sc[c].stamp <= sc[c].schema.at ) )

\* C18's case: with schemas of both urls in the cache, a call is answered
\* from the cache with the schema of its own url.
C18_Witness ==
    \E c \in Callers :
        /\ sc[c].pc = "done" /\ sc[c].outcome = "returned"
        /\ ~sc[c].issued
        /\ DOMAIN _schema_cache = Urls
        /\ sc[c].schema.from = sc[c].url
        /\ sc[c].schema = _schema_cache[sc[c].url].schema

(***************************************************************************)
(* The claims about get_drug_repurposing_candidates.                       *)
(***************************************************************************)
\* An argument of the call is outside its range.
OutOfRange(a) ==
    \/ a.min_association_score < 0
    \/ a.min_association_score > 10
    \/ a.min_clinical_phase < 0
    \/ a.max_targets < 1 \/ a.max_targets > MAX_WORKFLOW_TARGETS
    \/ a.max_drugs_per_target < 1
    \/ a.max_drugs_per_target > MAX_WORKFLOW_DRUGS_PER_TARGET
    \/ a.max_candidates < 1 \/ a.max_candidates > MAX_WORKFLOW_CANDIDATES
    \/ a.max_concurrency < 1 \/ a.max_concurrency > MAX_WORKFLOW_CONCURRENCY

\* C24: a call with min_association_score outside [0, 1], with max_targets,
\* max_drugs_per_target, max_candidates or max_concurrency below 1 or above
\* its hard cap, or with a negative min_clinical_phase ends in a
\* ValidationError with no query issued.
C24_ArgumentsValidatedFirst ==
    (workflow.pc # "idle" /\ OutOfRange(workflow.arguments))
    => ( /\ workflow.pc = "done"
         /\ workflow.outcome = "raised"
         /\ workflow.error = "ValidationError"
         /\ workflow.queries = 0
         /\ fetch = <<>> )

\* C24's case: max_candidates above its cap, refused with no query issued.
C24_Witness ==
    /\ workflow.pc = "done"
    /\ workflow.arguments.max_candidates = MAX_WORKFLOW_CANDIDATES + 1
    /\ workflow.error = "ValidationError"
    /\ workflow.queries = 0

\* The call got past the validation of its arguments.
Accepted == workflow.pc # "idle" /\ ~OutOfRange(workflow.arguments)

\* C25: when efo_id already matches the disease-ID pattern it is the
\* resolved identifier, unchanged, and map_ids is never called.
C25_IdentifierPassesThrough ==
    (Accepted /\ _looks_like_id(workflow.efo_id, _DISEASE_ID_PATTERNS))
    => ( /\ workflow.map_ids = 0
         /\ workflow.pc # "resolving"
         /\ workflow.resolved_efo_id = workflow.efo_id )

\* C25's case: a call with an identifier that went on to its queries and
\* returned.
C25_Witness ==
    /\ workflow.outcome = "returned"
    /\ workflow.efo_id = "EFO_1"
    /\ workflow.resolved_efo_id = "EFO_1"
    /\ workflow.map_ids = 0
    /\ workflow.queries > 0

\* The hits of the first mapping of an answer of map_ids that are dicts.
FirstHits(mapping) ==
    IF mapping.isList /\ mapping.mappings # <<>>
       /\ mapping.mappings[1].isDict
    THEN SelectSeq(mapping.mappings[1].hits, IsDictEntry)
    ELSE <<>>

\* The hit at position n scores highest and is the first to do so.
FirstHighest(hits, n) ==
    /\ \A k \in 1..Len(hits) : ScoreOf(hits[k]) <= ScoreOf(hits[n])
    /\ \A k \in 1..(n - 1) : ScoreOf(hits[k]) < ScoreOf(hits[n])

\* C26: for a name, the resolved identifier is the id of the highest-scoring
\* hit of the first mapping, the first in the answer's order among equals;
\* the call ends in a ValidationError when there is no mapping, no hit, or
\* no id in the best hit.  The outcome is a function of the answer.
C26_BestHitFirstAmongEquals ==
    (workflow.mapping # <<>>)
    => LET hits == FirstHits(workflow.mapping[1]) IN
       IF hits = <<>>
          \/ \E n \in 1..Len(hits) : FirstHighest(hits, n) /\ hits[n].id = ""
       THEN /\ workflow.outcome = "raised"
            /\ workflow.error = "ValidationError"
            /\ workflow.queries = 1
       ELSE /\ \E n \in 1..Len(hits) :
                  /\ FirstHighest(hits, n)
                  /\ workflow.resolved_efo_id = hits[n].id
            /\ workflow.message # "Unable to resolve disease identifier"

\* C26's case: two hits share the best score after a lower one, and the
\* first of the two is taken.
C26_Witness ==
    /\ workflow.mapping =
         <<Mappings(<<Mapping(<<Hit("EFO_A", 5), Hit("EFO_B", 9),
                                Hit("EFO_C", 9)>>)>>)>>
    /\ workflow.resolved_efo_id = "EFO_B"
    /\ workflow.outcome = "returned"

\* The tasks that ended in an exception.
FailedTasks == { i \in 1..Len(fetch) : fetch[i].raised }

VisitedRows ==
    Visited(TargetDrugSets(fetch, workflow.selected_targets, 1),
            workflow.arguments)

\* The positions, among the first n visited rows, of the rows merged into
\* the candidate of a drug.
MergedInto(id, n) ==
    { k \in 1..n : /\ ~Excluded(VisitedRows[k].row, workflow.arguments)
                   /\ DrugIdOf(VisitedRows[k].row) = id }

\* The greatest number of a non-empty set.
Greatest(S) == CHOOSE x \in S : \A y \in S : y <= x

\* The candidate holds the best values of the rows at these positions.
HoldsBestOf(candidate, rows) ==
    /\ rows # {}
    /\ candidate.bestAssociationScore =
         Greatest({ VisitedRows[k].target.association_score : k \in rows })
    /\ candidate.bestPhase =
         Greatest({ PhaseOf(VisitedRows[k].row) : k \in rows })
    /\ candidate.isApproved =
         (\E k \in rows : VisitedRows[k].row.drug.isApproved)

\* C28: after every row of the merge, each candidate's bestAssociationScore
\* and bestPhase are the maxima, and its isApproved the disjunction, over the
\* rows merged into it so far; isApproved never reverts.  The same holds of
\* the candidates returned.
C28_CandidatesHoldBestSoFar ==
    (workflow.outcome = "returned")
    => LET a == workflow.arguments
           After(n) == Merged(VisitedRows, n, a)
       IN /\ \A n \in 0..Len(VisitedRows) :
               \A c \in 1..Len(After(n)) :
                  /\ HoldsBestOf(After(n)[c], MergedInto(After(n)[c].id, n))
                  /\ (n > 0 /\ c <= Len(After(n - 1))
                      /\ After(n - 1)[c].isApproved)
                     => After(n)[c].isApproved
          /\ \A c \in 1..Len(workflow.candidates) :
               HoldsBestOf(workflow.candidates[c],
                           MergedInto(workflow.candidates[c].id,
                                      Len(VisitedRows)))

\* C28's case: a drug's approved phase-4 row is followed by a row of another
\* target that is not approved and of phase 3; the candidate stays approved
\* with phase 4 and the first target's score.
C28_Witness ==
    /\ workflow.outcome = "returned"
    /\ Len(VisitedRows) >= 3
    /\ DrugIdOf(VisitedRows[1].row) = "A"
    /\ VisitedRows[1].row.drug.isApproved
    /\ DrugIdOf(VisitedRows[3].row) = "A"
    /\ ~VisitedRows[3].row.drug.isApproved
    /\ PhaseOf(VisitedRows[3].row) = 3
    /\ \E c \in 1..Len(workflow.candidates) :
          /\ workflow.candidates[c].id = "A"
          /\ workflow.candidates[c].isApproved
          /\ workflow.candidates[c].bestPhase = 4
          /\ Len(workflow.candidates[c].supportingTargets) = 2

\* C29: only targets with a score of at least min_association_score are
\* retained, one with exactly that score included; no candidate has a
\* supporting row of a phase below min_clinical_phase; with approved_only no
\* row of a drug that is not approved contributes, and every returned
\* candidate is approved.
C29_FiltersAreApplied ==
    (workflow.outcome = "returned")
    => LET a == workflow.arguments
           rows == workflow.all_target_rows
       IN /\ \A t \in 1..Len(workflow.targets) :
               workflow.targets[t].association_score
                   >= a.min_association_score
          /\ Len(workflow.targets) =
               Cardinality({ n \in 1..Len(rows) :
                   /\ rows[n].isDict /\ rows[n].numeric /\ rows[n].id # ""
                   /\ rows[n].score >= a.min_association_score })
          /\ \A c \in 1..Len(workflow.candidates) :
               LET candidate == workflow.candidates[c]
                   support == candidate.supportingTargets
               IN /\ \A s \in 1..Len(support) :
                       support[s].phase >= a.min_clinical_phase
                  /\ a.approved_only => candidate.isApproved
                  /\ Len(support) =
                       Cardinality({ k \in 1..Len(VisitedRows) :
                          LET row == VisitedRows[k].row IN
                          /\ row.isDict
                          /\ DrugIdOf(row) = candidate.id
                          /\ PhaseOf(row) >= a.min_clinical_phase
                          /\ (a.approved_only => row.drug.isApproved) })

\* C29's case: approved_only is set, a target with exactly the minimal score
\* is retained, and of its rows the one of a drug that is not approved is
\* left out.
C29_Witness ==
    /\ workflow.outcome = "returned"
    /\ workflow.arguments.approved_only
    /\ Len(workflow.targets) > 0
    /\ workflow.targets[1].association_score
         = workflow.arguments.min_association_score
    /\ \E k \in 1..Len(VisitedRows) :
          /\ VisitedRows[k].row.isDict
          /\ DrugIdOf(VisitedRows[k].row) = "B"
          /\ ~VisitedRows[k].row.drug.isApproved
    /\ Len(workflow.candidates) > 0
    /\ \A c \in 1..Len(workflow.candidates) : workflow.candidates[c].id # "B"

\* Every candidate the merge of the call made, before the ranking.
AllCandidates ==
    LET merged == Merged(VisitedRows, Len(VisitedRows), workflow.arguments)
    IN [n \in 1..Len(merged) |-> Counted(merged[n])]

\* C30: the returned candidates are in descending order of (isApproved,
\* bestAssociationScore, bestPhase, supportingTargetCount), there are at
\* most max_candidates of them, and no candidate left out ranks above one
\* returned.
C30_RankedAndTruncated ==
    (workflow.outcome = "returned")
    => LET returned == workflow.candidates
           count == Len(returned)
       IN /\ \A n \in 1..(count - 1) :
               ~TupleGreater(CandidateKey(returned[n + 1]),
                             CandidateKey(returned[n]))
          /\ count = Min(Len(AllCandidates),
                         workflow.arguments.max_candidates)
          /\ \A n \in 1..count :
               \E m \in 1..Len(AllCandidates) : AllCandidates[m] = returned[n]
          /\ \A m \in 1..Len(AllCandidates) :
               (\A n \in 1..count : returned[n].id # AllCandidates[m].id)
               => \A n \in 1..count :
                     ~TupleGreater(CandidateKey(AllCandidates[m]),
                                   CandidateKey(returned[n]))

\* C30's case: max_candidates is 1 and of two candidates the approved one is
\* returned, though it was made second and has the lower score.
C30_Witness ==
    /\ workflow.outcome = "returned"
    /\ workflow.arguments.max_candidates = 1
    /\ Len(workflow.candidates) = 1
    /\ Len(AllCandidates) >= 2
    /\ workflow.candidates[1].id # AllCandidates[1].id
    /\ workflow.candidates[1].isApproved
    /\ workflow.candidates[1].bestAssociationScore
         < AllCandidates[1].bestAssociationScore

(***************************************************************************)
(* The claims about the order of validation and network activity.          *)
(***************************************************************************)
\* The call ended in a ValidationError.
EndedInValidationError ==
    /\ workflow.pc = "done"
    /\ workflow.outcome = "raised"
    /\ workflow.error = "ValidationError"

C32_BoundedRetriesWithBackoff ==
    /\ gq.requests <= _max_retries
    /\ gq.attempt <= _max_retries - 1
    /\ \A i \in 0..(Len(gq.sleeps) - 1) :
          gq.sleeps[i + 1] = _retry_delay * (2 ^ i)
    /\ \A i \in 1..(Len(gq.sleeps) - 1) :
          /\ gq.sleeps[i + 1] = 2 * gq.sleeps[i]
          /\ _retry_delay > 0 => gq.sleeps[i + 1] > gq.sleeps[i]
    /\ gq.pc = "sleeping"
       => /\ Len(gq.sleeps) = gq.attempt + 1
          /\ gq.attempt < _max_retries - 1
    /\ gq.pc \in {"awaiting", "done"} => Len(gq.sleeps) = gq.attempt
    /\ Len(gq.sleeps) <= _max_retries - 1

\* C32's case: a call of three attempts with a delay of 1 has slept 1 and
\* then 2, and ends on its third transient outcome without another sleep.
C32_Witness ==
    /\ gq.pc = "done"
    /\ _retry_delay = 1
    /\ gq.requests = 3
    /\ gq.sleeps = <<1, 2>>
    /\ gq.cause = "transport"

(* The claims about what a call leaves alone in the client's cache. *)
\* A step in which a _query call is answered from the cache.
HitStep ==
    /\ last'.outcome = "hit"
    /\ pc' = pc
    /\ (last' # last \/ held' # held)

\* C33: a call answered from the cache leaves the cache as it was, the
\* timestamp of the entry it read included, and the entry it read is
\* younger than the TTL counted from that timestamp: however often an
\* entry stored at time t is read, it is not served at t + TTL or later.
C33_HitKeepsInsertionTimestamp ==
    [][HitStep =>
         LET key == CacheKey(last'.query, last'.variables) IN
         /\ _cache' = _cache
         /\ key \in DOMAIN _cache
         /\ now < _cache[key].timestamp + _cache_ttl]_vars

\* C33's case: an entry is read half a TTL after it was stored.
C33_Witness ==
    LET key == CacheKey(last.query, last.variables) IN
    /\ last.outcome = "hit"
    /\ key \in DOMAIN _cache
    /\ now = _cache[key].timestamp + TickStep
    /\ _cache_ttl = CACHE_TTL_DEFAULT

\* A step in which a _query call that was waiting for its response ends in
\* failure: an exception leaves it, or its response had an HTTP error
\* status.
FailedStep ==
    /\ \E c \in Callers : pc[c] = "awaiting" /\ pc'[c] = "idle"
    /\ (last'.outcome = "raised" \/ last'.status >= 400)

\* C38: a _query call that fails (GraphQL errors, an HTTP error status, a
\* transport failure) leaves the cache as it was, so that the key of the
\* failed call has no entry it did not have before.
C38_FailedCallLeavesCacheAlone ==
    [][FailedStep => _cache' = _cache]_vars

\* What does hold of the failures that leave _query as an exception: the
\* cache is as it was, and when no other call ended meanwhile the key of
\* the failed call is still not served from the cache.
RaisingCallLeavesCacheAlone ==
    [][(FailedStep /\ last'.outcome = "raised")
       => /\ _cache' = _cache
          /\ last'.seq
             => ~(CacheHit(CacheKey(last.query, last.variables)))']_vars

\* C34: graphql_query does not touch the client's cache and answers no
\* call from it: every call whose text was accepted has issued at least
\* one request when it ends, and the cache is as it was before the call.
C34_GatewayBypassesCache ==
    (gq.pc = "done" /\ gq.cause # "validation")
    => /\ gq.requests >= 1
       /\ _cache = [k \in {} |-> 0]

\* What does hold: the cache is never touched, and a call that found the
\* session usable has issued a request.
GatewayBypassesCacheOnOpenSession ==
    /\ _cache = [k \in {} |-> 0]
    /\ (gq.pc = "done" /\ gq.cause \in {"response", "transport"})
       => gq.requests >= 1

(* The claims about the concurrent known-drug lookups of the workflow. *)
\* The tasks that hold a slot: suspended in get_target_known_drugs.
FetchesInFlight == { i \in 1..Len(fetch) : fetch[i].pc = "inflight" }

\* C35: while the lookups of a workflow call run, at most max_concurrency
\* of them are in flight, whatever the order in which the tasks run and
\* end; and a lookup that has ended, by returning or by raising, holds no
\* slot: the free slots and the lookups in flight add up to
\* max_concurrency.
C35_LookupsBoundedBySemaphore ==
    workflow.pc = "lookups"
    => /\ Cardinality(FetchesInFlight) <= workflow.arguments.max_concurrency
       /\ fetch_semaphore.value + Cardinality(FetchesInFlight)
            = workflow.arguments.max_concurrency
       /\ fetch_semaphore.value >= 0

\* C35's case: with max_concurrency = 1 and three targets, the first lookup
\* has raised, the second holds the slot it gave back and the third waits.
C35_Witness ==
    /\ workflow.pc = "lookups"
    /\ workflow.arguments.max_concurrency = 1
    /\ Len(fetch) = 3
    /\ fetch[1].pc = "done" /\ fetch[1].raised
    /\ fetch[2].pc = "inflight"
    /\ fetch[3].pc = "waiting"

(* The claim about the slots of the batch runner. *)
\* The batch has returned its envelope.
BatchReturned == batch.pc = "done" /\ batch.outcome = "returned"

\* Entry i of a running batch has not been admitted yet.
NotAdmitted(i) ==
    /\ batch.pc = "running"
    /\ i \in 1..Len(task)
    /\ task[i].pc \in {"created", "waiting"}

\* Entry i holds a slot, or has ended.
Admitted(i) ==
    /\ i \in 1..Len(task)
    /\ task[i].pc \in {"inflight", "done"}

\* C36: every entry that was admitted gives its slot back when it ends, by
\* an envelope or by an exception, so that, every graphql_query call
\* ending, every entry of a running batch is eventually admitted, the
\* batch eventually returns, and when it has returned all max_concurrency
\* slots are free and no task waits for one.
C36_SlotsReleasedAndBatchReturns ==
    /\ [](batch.pc = "running"
            => semaphore.value + InFlight = batch.max_concurrency)
    /\ [](BatchReturned
            => /\ semaphore.value = batch.max_concurrency
               /\ semaphore.waiters = <<>>)
    /\ \A i \in Indices : NotAdmitted(i) ~> Admitted(i)
    /\ (batch.pc = "running") ~> BatchReturned

\* C36's case: a batch of three entries with max_concurrency = 1 has
\* returned; an entry ended in an exception, another in an envelope, and
\* the one slot is free.
C36_Witness ==
    /\ BatchReturned
    /\ batch.max_concurrency = 1
    /\ Len(task) = 3
    /\ \E i \in 1..3 : task[i].raised /\ task[i].answer = "NetworkError"
    /\ \E i \in 1..3 : ~task[i].raised /\ task[i].answer = "success"
    /\ semaphore.value = 1

(* The claims about the value the workflow returns. *)
\* The targets whose lookup returned, in the order of the selected targets.
Answered ==
    SelectSeq([n \in 1..Len(fetch) |-> n], LAMBDA n : ~fetch[n].raised)

\* What the lookups returned, target by target, whatever the order in
\* which they ended.
AnswersByTarget ==
    [k \in 1..Len(Answered) |->
        [target |-> workflow.selected_targets[Answered[k]],
         known_drugs |-> fetch[Answered[k]].known_drugs]]

\* The workflow call has returned its value.
WorkflowReturned == workflow.pc = "done" /\ workflow.outcome = "returned"

\* C37: the candidates the workflow returns are a function of its
\* arguments and of what each target's lookup answered: two calls that get
\* the same answers return the same ranked list, with the same order of
\* candidates and of each candidate's supportingTargets, in whatever order
\* their lookups ended.
C37_CandidatesIndependentOfCompletionOrder ==
    WorkflowReturned
    => LET a == workflow.arguments
           visited == Visited(AnswersByTarget, a)
       IN workflow.candidates = Ranked(Merged(visited, Len(visited), a), a)

\* C37's case: three lookups ended in the reverse of the order of their
\* targets, and two candidates were returned.
C37_Witness ==
    /\ WorkflowReturned
    /\ workflow.completed = <<3, 2, 1>>
    /\ Len(workflow.candidates) >= 2
    /\ \E n \in 1..Len(workflow.candidates) :
          Len(workflow.candidates[n].supportingTargets) >= 2

(* The claim about a failed introspection. *)
\* A step in which the introspection of call c fails.
IntrospectionFailsStep(c) ==
    /\ sc[c].pc = "introspecting"
    /\ sc'[c].pc = "done"
    /\ sc'[c].outcome = "raised"

\* C39: when the introspection query or the building of the schema fails,
\* the schema cache is left as it was and the lock is let go; the lock is
\* only ever held by a call that is introspecting, so no later call is
\* blocked by a failed one; and no call is answered with the schema of a
\* failed introspection: a later call finds what the failed call found and
\* issues an introspection of its own.
C39_FailedIntrospectionLeavesNoTrace ==
    [][/\ \A c \in Callers :
            IntrospectionFailsStep(c)
            => /\ _schema_cache' = _schema_cache
               /\ _schema_lock'.holder = ""
               /\ _schema_lock'.waiters = _schema_lock.waiters
       /\ _schema_lock'.holder # ""
            => sc'[_schema_lock'.holder].pc = "introspecting"
       /\ \A c, d \in Callers :
            (/\ sc'[d].outcome = "raised" /\ sc'[d].issued
             /\ sc'[c].outcome = "returned")
            => sc'[c].schema.serial # sc'[d].serial]_vars

\* C39's case: a call waited behind an introspection for the same url that
\* then failed, was admitted and has issued an introspection of its own.
C39_Witness ==
    \E c, d \in Callers :
        /\ sc[d].pc = "done" /\ sc[d].outcome = "raised" /\ sc[d].issued
        /\ sc[c].pc = "introspecting"
        /\ sc[c].behindSame
        /\ sc[c].waitedOn = sc[d].serial
        /\ sc[c].serial > sc[d].serial
        /\ _schema_lock.holder = c

\* The distinct targets among the supporting rows of a candidate.
SupportingTargetIds(candidate) ==
    { candidate.supportingTargets[n].targetId :
         n \in 1..Len(candidate.supportingTargets) }

\* C40: in the value the workflow returns, targetsWithKnownDrugs +
\* targetsFailedDrugLookup <= targetsPassedScoreFilter <= targetsEvaluated;
\* uniqueDrugCandidates is the length of the returned list of candidates;
\* and each candidate's supportingTargetCount is the number of distinct
\* targets among its supportingTargets, at least 1 and at most the number
\* of its supporting rows.
C40_SummaryCountsAreConsistent ==
    WorkflowReturned
    => LET summary == workflow.summary IN
       /\ summary.targetsWithKnownDrugs + summary.targetsFailedDrugLookup
            <= summary.targetsPassedScoreFilter
       /\ summary.targetsPassedScoreFilter <= summary.targetsEvaluated
       /\ summary.uniqueDrugCandidates = Len(workflow.candidates)
       /\ \A n \in 1..Len(workflow.candidates) :
            LET candidate == workflow.candidates[n] IN
            /\ candidate.supportingTargetCount
                 = Cardinality(SupportingTargetIds(candidate))
            /\ candidate.supportingTargetCount >= 1
            /\ candidate.supportingTargetCount
                 <= Len(candidate.supportingTargets)

\* C40's case: of five rows two targets passed the filter, one lookup
\* failed and the other returned drugs, and a returned candidate has two
\* supporting rows of one target.
C40_Witness ==
    /\ WorkflowReturned
    /\ workflow.summary.targetsEvaluated = 5
    /\ workflow.summary.targetsPassedScoreFilter = 2
    /\ workflow.summary.targetsFailedDrugLookup = 1
    /\ workflow.summary.targetsWithKnownDrugs = 1
    /\ \E n \in 1..Len(workflow.candidates) :
          /\ workflow.candidates[n].supportingTargetCount = 1
          /\ Len(workflow.candidates[n].supportingTargets) = 2
====
